---- MODULE Spec2Model ----
(***************************************************************************)
(* Driver-impairment monitoring core: alert throttling / escalation        *)
(* (src/src/core/alerts.py, class AlertSystem) and alert de-duplication    *)
(* (src/src/utils/alert_system.py, class AdvancedAlertSystem); eye-closure *)
(* tracking (src/src/core/detector.py, class DrowsinessDetector, and       *)
(* src/src/core/multimodal_detector.py, class EnhancedDriverDetector) and  *)
(* EAR smoothing (src/src/core/ear.py, class EARSmoother).                 *)
(*                                                                         *)
(* Time is a discrete clock.  In the AlertSystem part one tick stands for  *)
(* min_interval_sec / MinIntervalTicks seconds of datetime.now(); in the   *)
(* AdvancedAlertSystem part one tick stands for 30 s of time.time().       *)
(***************************************************************************)
EXTENDS Integers, Sequences, FiniteSets, TLC

(* ------------------------------ bounds -------------------------------- *)
\* caller threads that use one AlertSystem concurrently
NumCallers == 2
\* last clock reading of the AlertSystem part
MaxTime == 4
\* min_interval_sec expressed in clock ticks (default 5.0 s)
MinIntervalTicks == 2
\* largest escalation_threshold tried (default 3)
MaxThreshold == 2
\* a candidate for "the fixed capacity" of the delivery queue
CandidateCapacity == 1
\* deque(maxlen=100) of AdvancedAlertSystem.recent_alerts, scaled down
DedupWindow == 3
\* clock ticks (30 s each) the AdvancedAlertSystem part may advance
MaxAdvTicks == 1
\* distinct whole-percent confidence values offered to create_alert
NumConfidences == 2

\* SMOOTHING_WINDOW (5), scaled down
SmallSmoothingWindow == 2
\* CALIBRATION_FRAMES and CALIBRATION_DURATION (90), scaled down
SmallCalibrationFrames == 2
\* PERCLOS_WINDOW (300), scaled down
SmallPerclosWindow == 3
\* CONSEC_FRAMES (20), scaled down
SmallConsecFrames == 2
\* frames with a face fed to DrowsinessDetector in one session
MaxFrames == 7
\* frames with landmarks fed to EnhancedDriverDetector in one session
MaxEnhancedFrames == 4
\* largest window_size an EARSmoother is built with
MaxWindow == 3
\* add() calls on one EARSmoother between two resets
MaxAdds == 4
\* min_samples of VehicleDynamicsAnalyzer (30), scaled down
SmallMinSamples == 2
\* analyze() calls on one analyzer between two resets
MaxAnalyses == 2
\* fusions of one MultiModalDetector between two resets
MaxFusions == 2
\* process_vehicle_data() calls on one MultiModalDetector between two resets
MaxTelemetry == 1

\* callers stop issuing trigger_alert once this many alerts wait in the queue
MaxQueue == CandidateCapacity + 1

(* ------------------------- program constants -------------------------- *)
\* queue.Queue() : maxsize 0, which Python's Queue treats as "no limit"
QueueMaxsize == 0
\* "no value" of Optional[datetime] _last_alert_time
None == -1
\* the lock is free
Free == 0

Callers == 1..NumCallers
\* the worker thread, as a possible owner of the lock
WorkerId == NumCallers + 1

VARIABLES
    \* ---- AlertSystem (core/alerts.py) ----
    now,               \* datetime.now()
    config,            \* AlertConfig fields that decide control flow
    last_alert_time,   \* self._last_alert_time
    alert_count,       \* self._alert_count
    escalation_level,  \* self._escalation_level
    is_active,         \* self._is_active
    lock,              \* self._lock : Free or the thread holding it
    alert_queue,       \* self._alert_queue
    pc,                \* position of each caller thread
    worker_pc,         \* position of the worker thread
    alert_data,        \* the worker's local alert_data (<<>> when none)
    \* ---- history (not program state) ----
    accept_times,      \* values written to _last_alert_time since the last reset
    returned_true,     \* trigger_alert calls that returned True since the last reset
    puts,              \* _alert_queue.put calls since the last reset
    last_ret,          \* what the most recent trigger_alert call returned
    prev_accept,       \* the value last written to _last_alert_time by trigger_alert
    \* ---- AdvancedAlertSystem (utils/alert_system.py) ----
    adv_now,           \* time.time()
    recent_alerts,     \* self.recent_alerts : deque(maxlen)
    alert_hashes,      \* self.alert_hashes
    last_alert_times,  \* self.last_alert_times : severity -> time
    adv_alert,         \* alert_hash of the alert of the most recent create_alert call
    adv_result,        \* outcome of the most recent create_alert call
    \* ---- both detectors, indexed by detector ----
    tuning,            \* the constants of config.py / CALIBRATION_DURATION
    is_calibrating,    \* self.is_calibrating
    calibration_frames,\* self.calibration_frames
    ear_threshold,     \* self.ear_threshold, an exact fraction of EarUnits
    \* ---- DrowsinessDetector (core/detector.py) ----
    ear_history,       \* self.ear_history : deque(maxlen=SMOOTHING_WINDOW)
    calibration_data,  \* self.calibration_data
    closed_history,    \* self.closed_history : deque(maxlen=PERCLOS_WINDOW)
    frame_count,       \* self.frame_count
    drowsy,            \* self.drowsy
    alarm_thread,      \* self.alarm_thread : "None", "alive" or "finished"
    \* ---- EnhancedDriverDetector (core/multimodal_detector.py) ----
    calibration_buffer,\* self.calibration_buffer
    blink_history,     \* self.blink_history
    drowsy_frames,     \* self.drowsy_frames
    alert_frames,      \* self.alert_frames
    last_blink_time,   \* self.last_blink_time
    cam_time,          \* time.time() at the most recent process_frame call
    returned_state,    \* the DriverState process_frame returned last
    \* ---- history of the detectors (not program state) ----
    last_frame,        \* which detector got the most recent frame, and its kind
    samples_log,       \* every sample appended during calibration, per detector
    raw_log,           \* the raw_ear of each calibration frame of DrowsinessDetector
    closed_log,        \* is_closed of every frame of the detection branch
    last_reason,       \* the alert text of the most recent detection frame
    perclos,           \* the local perclos of the most recent detection frame
    \* ---- EARSmoother (core/ear.py) ----
    window_size,       \* self.window_size
    buffer,            \* self.buffer
    adds,              \* history: the arguments of add() since construction / reset()
    smoothed,          \* history: what the most recent add() returned
    \* ---- VehicleDynamicsAnalyzer (core/vehicle_dynamics.py) ----
    thresholds,        \* steering_entropy_threshold, speed_var_threshold, lane_dev_threshold
    last_metrics,      \* self._last_metrics
    analysis_count,    \* self._analysis_count
    analyses,          \* history: analyze() calls since construction / reset()
    vd_call,           \* history: the most recent call, its arguments and result
    \* ---- MultiModalDetector (core/fusion.py) ----
    enable_vehicle,    \* self.enable_vehicle
    fusion_strategy,   \* self.fusion_strategy
    last_fusion,       \* self._last_fusion
    fusion_count,      \* self._fusion_count
    fuse_call,         \* history: the most recent call, its arguments and result
    \* ---- EARCalculator (core/ear.py) ----
    consecutive_failures, \* self._consecutive_failures
    ear_call,          \* history: the most recent calculate_ear call and its result
    \* ---- AlertSystem : the delivery log (not program state) ----
    queued_ids,        \* the acceptance number of each entry of alert_queue
    handed,            \* the acceptance numbers handed to _deliver_alert, in order
    callback_index,    \* position of the loop of _execute_callbacks (0 outside)
    executed,          \* the callbacks executed for the alert under delivery
    first_failed,      \* the first alert whose delivery raised (0 when none)
    \* ---- CircuitBreaker (utils/alert_system.py) ----
    breaker_now,       \* time.time()
    breaker_state,     \* self.state
    failures,          \* self.failures
    last_failure_time, \* self.last_failure_time
    consecutive,       \* history: failures of the wrapped function in a row
    breaker_call,      \* history: the most recent call() or reset(), the state before it
    \* ---- AdvancedAlertSystem : queue processing (utils/alert_system.py) ----
    adv_queue,         \* self.alert_queue
    is_online,         \* self.is_online
    offline_buffer,    \* self.offline_buffer
    proc_pc,           \* position of the processing thread
    proc_alert,        \* the processing thread's local alert (0 when none)
    conn_pc,           \* position of the thread inside set_online_status
    conn_index,        \* position of the iterator over offline_buffer
    triggered,         \* history: alerts put on the queue by trigger_alert
    sent               \* history: the alerts routed to the send functions, in order

state == <<last_alert_time, alert_count, escalation_level>>
history == <<accept_times, returned_true, puts, last_ret, prev_accept>>
alertVars == <<now, config, state, is_active, lock, alert_queue, pc, worker_pc,
               alert_data, history>>
advVars == <<adv_now, recent_alerts, alert_hashes, last_alert_times, adv_alert,
             adv_result>>
calibVars == <<is_calibrating, calibration_frames, ear_threshold, samples_log>>
dVars == <<ear_history, calibration_data, closed_history, frame_count, drowsy,
           alarm_thread>>
dHist == <<closed_log, last_reason, perclos, raw_log>>
eVars == <<calibration_buffer, blink_history, drowsy_frames, alert_frames,
           last_blink_time, cam_time, returned_state>>
smVars == <<window_size, buffer, adds, smoothed>>
eyeVars == <<tuning, last_frame, calibVars, dVars, dHist, eVars, smVars>>
vehVars == <<thresholds, last_metrics, analysis_count, analyses, vd_call>>
fusVars == <<enable_vehicle, fusion_strategy, last_fusion, fusion_count, fuse_call>>
earVars == <<consecutive_failures, ear_call>>
dlvVars == <<queued_ids, handed, callback_index, executed, first_failed>>
brkVars == <<breaker_now, breaker_state, failures, last_failure_time, consecutive,
             breaker_call>>
offVars == <<adv_queue, is_online, offline_buffer, proc_pc, proc_alert, conn_pc,
             conn_index, triggered, sent>>
vars == <<alertVars, advVars, eyeVars, vehVars, fusVars, earVars, dlvVars, brkVars,
          offVars>>
\* what no operation of AlertSystem touches
notAlert == <<advVars, eyeVars, vehVars, fusVars, earVars, dlvVars, brkVars, offVars>>
\* what no operation of AdvancedAlertSystem touches
notAdv == <<alertVars, eyeVars, vehVars, fusVars, earVars, dlvVars, brkVars, offVars>>
\* what no operation of the detectors or of EARSmoother touches
notEye == <<alertVars, advVars, vehVars, fusVars, earVars, dlvVars, brkVars, offVars>>
\* what no operation of VehicleDynamicsAnalyzer or MultiModalDetector touches
notFusion == <<alertVars, advVars, eyeVars, earVars, dlvVars, brkVars, offVars>>
\* what no operation of EARCalculator touches
notEar == <<alertVars, advVars, eyeVars, vehVars, fusVars, dlvVars, brkVars, offVars>>
\* what queue processing and set_online_status do not touch
notOffline == <<alertVars, advVars, eyeVars, vehVars, fusVars, earVars, dlvVars,
                brkVars>>
\* what no operation of CircuitBreaker touches
notBreaker == <<alertVars, advVars, eyeVars, vehVars, fusVars, earVars, dlvVars, offVars>>
\* what the delivery of AlertSystem does not touch
notDelivery == <<advVars, eyeVars, vehVars, fusVars, earVars, brkVars, offVars>>

(* ====================================================================== *)
(*                     AlertSystem  (core/alerts.py)                      *)
(* ====================================================================== *)

\* AlertConfig: the fields trigger_alert branches on.  escalation_threshold
\* is at least 1 (0 makes `% escalation_threshold` raise ZeroDivisionError).
Configs ==
    [enable_escalation : BOOLEAN,
     escalation_threshold : 1..MaxThreshold,
     min_interval_sec : {MinIntervalTicks}]

\* Queue.put blocks only while maxsize > 0 and qsize() >= maxsize
QueueFull(q) == QueueMaxsize > 0 /\ Len(q) >= QueueMaxsize

\* _should_trigger_alert
ShouldTriggerAlert_offByOne(last, t) ==
    IF last = None THEN TRUE
    ELSE (t - last) >= config.min_interval_sec - 1
ShouldTriggerAlert(last, t) ==
    IF last = None THEN TRUE
    ELSE (t - last) >= config.min_interval_sec

\* `with self._lock:` entry
AcquireLock_noWait(t) == lock' = t
AcquireLock(t) == lock = Free /\ lock' = t

\* `with self._lock:` exit
ReleaseLock(t) == lock' = Free

AlertInit ==
    /\ now = 0
    /\ config \in Configs
    /\ last_alert_time = None
    /\ alert_count = 0
    /\ escalation_level = 0
    /\ is_active = TRUE
    /\ lock = Free
    /\ alert_queue = <<>>
    /\ pc = [t \in Callers |-> "idle"]
    /\ worker_pc = "while"
    /\ alert_data = <<>>
    /\ accept_times = <<>>
    /\ returned_true = 0
    /\ puts = 0
    /\ last_ret = "none"
    /\ prev_accept = None

\* the wall clock advances
Tick ==
    /\ now < MaxTime
    /\ now' = now + 1
    /\ UNCHANGED <<config, state, is_active, lock, alert_queue, pc, worker_pc,
                   alert_data, history,
                   notAlert>>

(* ---------------------------- trigger_alert --------------------------- *)
\* the call enters `with self._lock:` (it waits until the lock is free)
TriggerAlert_Call(t) ==
    /\ pc[t] = "idle"
    /\ Len(alert_queue) < MaxQueue
    /\ AcquireLock(t)
    /\ pc' = [pc EXCEPT ![t] = "t_check"]
    /\ UNCHANGED <<now, config, state, is_active, alert_queue, worker_pc,
                   alert_data, history,
                   notAlert>>

\* throttled: "Alert throttled", return False (the with-block releases the lock)
TriggerAlert_Reject_slidingWindow(t) ==
    /\ pc[t] = "t_check"
    /\ ~ShouldTriggerAlert(last_alert_time, now)
    /\ ReleaseLock(t)
    /\ last_alert_time' = now
    /\ pc' = [pc EXCEPT ![t] = "idle"]
    /\ last_ret' = "throttled"
    /\ UNCHANGED <<now, config, alert_count, escalation_level, is_active,
                   alert_queue, worker_pc, alert_data, accept_times,
                   returned_true, puts, prev_accept,
                   notAlert>>
TriggerAlert_Reject(t) ==
    /\ pc[t] = "t_check"
    /\ ~ShouldTriggerAlert(last_alert_time, now)
    /\ ReleaseLock(t)
    /\ pc' = [pc EXCEPT ![t] = "idle"]
    /\ last_ret' = "throttled"
    /\ UNCHANGED <<now, config, state, is_active, alert_queue, worker_pc,
                   alert_data, accept_times, returned_true, puts, prev_accept,
                   notAlert>>

\* the throttle check passes
TriggerAlert_Pass(t) ==
    /\ pc[t] = "t_check"
    /\ ShouldTriggerAlert(last_alert_time, now)
    /\ pc' = [pc EXCEPT ![t] = "t_update"]
    /\ UNCHANGED <<now, config, state, is_active, lock, alert_queue, worker_pc,
                   alert_data, history,
                   notAlert>>

\* self._last_alert_time = datetime.now()
TriggerAlert_Stamp(t) ==
    /\ pc[t] = "t_update"
    /\ last_alert_time' = now
    /\ accept_times' = Append(accept_times, now)
    /\ prev_accept' = now
    /\ pc' = [pc EXCEPT ![t] = "t_count"]
    /\ UNCHANGED <<now, config, alert_count, escalation_level, is_active, lock,
                   alert_queue, worker_pc, alert_data, returned_true, puts,
                   last_ret,
                   notAlert>>

\* the escalation check of trigger_alert: the level after the n-th alert
Escalate_everyAlert(level, n) ==
    IF config.enable_escalation THEN level + 1 ELSE level
Escalate(level, n) ==
    IF config.enable_escalation /\ n % config.escalation_threshold = 0
    THEN level + 1
    ELSE level

\* self._alert_count += 1 ; the escalation check
TriggerAlert_Count(t) ==
    /\ pc[t] = "t_count"
    /\ alert_count' = alert_count + 1
    /\ escalation_level' = Escalate(escalation_level, alert_count + 1)
    /\ pc' = [pc EXCEPT ![t] = "t_put"]
    /\ UNCHANGED <<now, config, last_alert_time, is_active, lock, alert_queue,
                   worker_pc, alert_data, history,
                   notAlert>>

\* the alert_data dictionary, as far as this core reads it.  n (the alert's
\* number since the last reset) is history: the dictionary has no such key.
\* level, message, channels and timestamp are payload for the dispatcher.
AlertData_beforeIncrement(level, n) ==
    [escalation_level |->
        IF config.enable_escalation /\ n % config.escalation_threshold = 0
        THEN level - 1 ELSE level,
     n |-> n]
AlertData(level, n) == [escalation_level |-> level, n |-> n]

\* self._alert_queue.put(alert_data) ; return True
TriggerAlert_Put(t) ==
    /\ pc[t] = "t_put"
    /\ ~QueueFull(alert_queue)
    /\ alert_queue' = Append(alert_queue, AlertData(escalation_level, alert_count))
    /\ puts' = puts + 1
    /\ returned_true' = returned_true + 1
    /\ last_ret' = "accepted"
    /\ ReleaseLock(t)
    /\ pc' = [pc EXCEPT ![t] = "idle"]
    /\ UNCHANGED <<now, config, state, is_active, worker_pc, alert_data,
                   accept_times, prev_accept,
                   notAlert>>

(* -------------------------------- reset ------------------------------- *)
\* the call enters `with self._lock:`
Reset_Call_noLock(t) ==
    /\ pc[t] = "idle"
    /\ pc' = [pc EXCEPT ![t] = "r_last"]
    /\ UNCHANGED <<now, config, state, is_active, lock, alert_queue, worker_pc,
                   alert_data, history,
                   notAlert>>
Reset_Call(t) ==
    /\ pc[t] = "idle"
    /\ AcquireLock(t)
    /\ pc' = [pc EXCEPT ![t] = "r_last"]
    /\ UNCHANGED <<now, config, state, is_active, alert_queue, worker_pc,
                   alert_data, history,
                   notAlert>>

\* self._last_alert_time = None
Reset_Last(t) ==
    /\ pc[t] = "r_last"
    /\ last_alert_time' = None
    /\ accept_times' = <<>>
    /\ pc' = [pc EXCEPT ![t] = "r_count"]
    /\ UNCHANGED <<now, config, alert_count, escalation_level, is_active, lock,
                   alert_queue, worker_pc, alert_data, returned_true, puts,
                   last_ret, prev_accept,
                   notAlert>>

\* self._alert_count = 0
Reset_Count(t) ==
    /\ pc[t] = "r_count"
    /\ alert_count' = 0
    /\ returned_true' = 0
    /\ puts' = 0
    /\ pc' = [pc EXCEPT ![t] = "r_esc"]
    /\ UNCHANGED <<now, config, last_alert_time, escalation_level, is_active,
                   lock, alert_queue, worker_pc, alert_data, accept_times,
                   last_ret, prev_accept,
                   notAlert>>

\* self._escalation_level = 0 ; the with-block ends
Reset_Escalation(t) ==
    /\ pc[t] = "r_esc"
    /\ escalation_level' = 0
    /\ ReleaseLock(t)
    /\ pc' = [pc EXCEPT ![t] = "idle"]
    /\ UNCHANGED <<now, config, last_alert_time, alert_count, is_active,
                   alert_queue, worker_pc, alert_data, history,
                   notAlert>>

(* ---------------------------- get_statistics -------------------------- *)
\* the call enters `with self._lock:`
GetStatistics_Call(t) ==
    /\ pc[t] = "idle"
    /\ AcquireLock(t)
    /\ pc' = [pc EXCEPT ![t] = "s_read"]
    /\ UNCHANGED <<now, config, state, is_active, alert_queue, worker_pc,
                   alert_data, history,
                   notAlert>>

\* the dictionary is built from the three fields and returned
GetStatistics_Return(t) ==
    /\ pc[t] = "s_read"
    /\ ReleaseLock(t)
    /\ pc' = [pc EXCEPT ![t] = "idle"]
    /\ UNCHANGED <<now, config, state, is_active, alert_queue, worker_pc,
                   alert_data, history,
                   notAlert>>

(* ------------------------------- shutdown ----------------------------- *)
\* self._is_active = False, written without the lock.  The join(timeout=2.0)
\* that follows returns whether or not the worker has ended and writes nothing.
Shutdown(t) ==
    /\ pc[t] = "idle"
    /\ is_active' = FALSE
    /\ UNCHANGED <<now, config, state, lock, alert_queue, pc, worker_pc,
                   alert_data, history,
                   notAlert>>

(* ----------------------------- _alert_worker -------------------------- *)
\* `while self._is_active:` : the loop goes on
WorkerGoesOn_drainFirst == is_active \/ alert_queue # <<>>
WorkerGoesOn == is_active

Worker_While ==
    /\ worker_pc = "while"
    /\ worker_pc' = IF WorkerGoesOn THEN "get" ELSE "exited"
    /\ UNCHANGED <<now, config, state, is_active, lock, alert_queue, pc,
                   alert_data, history,
                   notAlert>>

\* alert_data = self._alert_queue.get(timeout=1.0)
Worker_Get_underLock ==
    /\ worker_pc = "get"
    /\ alert_queue # <<>>
    /\ lock = Free
    /\ lock' = WorkerId
    /\ alert_data' = Head(alert_queue)
    /\ alert_queue' = Tail(alert_queue)
    /\ worker_pc' = "deliver"
    /\ UNCHANGED <<now, config, state, is_active, pc, history,
                   notAlert>>
Worker_Get ==
    /\ worker_pc = "get"
    /\ alert_queue # <<>>
    /\ alert_data' = Head(alert_queue)
    /\ alert_queue' = Tail(alert_queue)
    /\ worker_pc' = "deliver"
    /\ UNCHANGED <<now, config, state, is_active, lock, pc, history,
                   notAlert>>

\* queue.Empty after the timeout: continue
Worker_GetTimeout ==
    /\ worker_pc = "get"
    /\ alert_queue = <<>>
    /\ worker_pc' = "while"
    /\ UNCHANGED <<now, config, state, is_active, lock, alert_queue, pc,
                   alert_data, history,
                   notAlert>>

\* self._deliver_alert(alert_data) returns
Worker_Delivered ==
    /\ worker_pc = "deliver"
    /\ alert_data' = <<>>
    /\ worker_pc' = "while"
    /\ UNCHANGED <<now, config, state, is_active, lock, alert_queue, pc,
                   history,
                   notAlert>>

\* self._deliver_alert(alert_data) raises: the error is logged, the loop goes on
Worker_DeliverRaised ==
    /\ worker_pc = "deliver"
    /\ alert_data' = <<>>
    /\ worker_pc' = "while"
    /\ UNCHANGED <<now, config, state, is_active, lock, alert_queue, pc,
                   history,
                   notAlert>>

WorkerStep ==
    \/ Worker_While
    \/ Worker_Get
    \/ Worker_GetTimeout
    \/ Worker_Delivered
    \/ Worker_DeliverRaised

\* a step inside a call that caller t has begun
CallerContinue(t) ==
    \/ TriggerAlert_Reject(t)
    \/ TriggerAlert_Pass(t)
    \/ TriggerAlert_Stamp(t)
    \/ TriggerAlert_Count(t)
    \/ TriggerAlert_Put(t)
    \/ Reset_Last(t)
    \/ Reset_Count(t)
    \/ Reset_Escalation(t)
    \/ GetStatistics_Return(t)

\* caller t begins a call
CallerCall(t) ==
    \/ TriggerAlert_Call(t)
    \/ Reset_Call(t)
    \/ GetStatistics_Call(t)
    \/ Shutdown(t)

(* ====================================================================== *)
(*               AdvancedAlertSystem  (utils/alert_system.py)             *)
(* ====================================================================== *)
Severities == {"LOW", "MEDIUM", "HIGH", "CRITICAL"}

\* self.alert_cooldown, in ticks of 30 s: 300 s, 120 s, 30 s, 0 s
AlertCooldown(severity) ==
    CASE severity = "LOW" -> 10
      [] severity = "MEDIUM" -> 4
      [] severity = "HIGH" -> 1
      [] severity = "CRITICAL" -> 0

\* time.time() when the system starts: later than any cooldown after the epoch
StartTicks == AlertCooldown("LOW")

\* the inputs offered to create_alert
DriverStates == {"Asleep", "Drowsy"}
\* duration, in seconds
Durations == {0, 11}
\* confidence, in thousandths: each whole percent comes with a value half a percent above it
Confidences == {10 * (79 + k) + d : k \in 1..NumConfidences, d \in {0, 5}}

\* determine_severity with context = None (no context-based escalation).
\* metricsConfidence is metrics.get("confidence", 0), in thousandths.
DetermineSeverity(driver_state, metricsConfidence, duration) ==
    CASE driver_state = "Asleep" -> "CRITICAL"
      [] driver_state = "High Risk" ->
            IF metricsConfidence > 800 THEN "CRITICAL" ELSE "HIGH"
      [] driver_state = "Drowsy" ->
            IF duration > 10 THEN "CRITICAL"
            ELSE IF duration > 3 THEN "HIGH"
            ELSE "MEDIUM"
      [] driver_state = "Distracted" ->
            IF duration > 5 THEN "HIGH" ELSE "MEDIUM"
      [] driver_state = "Moderate Risk" -> "MEDIUM"
      [] OTHER -> "LOW"

\* AlertData.__post_init__: the hash of f"{driver_state}_{severity}_{int(confidence*100)}".
\* sha256 is taken as injective on these strings; int() truncates the confidence.
AlertHash(driver_state, severity, confidence) ==
    <<driver_state, severity, confidence \div 10>>

\* deque(maxlen=DedupWindow).append : the oldest entry falls out of a full deque
DequeAppend(d, x) ==
    IF Len(d) >= DedupWindow THEN Append(Tail(d), x) ELSE Append(d, x)

\* should_suppress_alert; "hash" and "cooldown" name the branch that suppressed
ShouldSuppressAlert(hash, severity) ==
    IF hash \in alert_hashes THEN "hash"
    ELSE IF adv_now - last_alert_times[severity] < AlertCooldown(severity) THEN "cooldown"
    ELSE "no"

AdvInit ==
    /\ adv_now = StartTicks
    /\ recent_alerts = <<>>
    /\ alert_hashes = {}
    /\ last_alert_times = [s \in Severities |-> 0]
    /\ adv_alert = <<>>
    /\ adv_result = "none"

\* time.time() advances
AdvTick ==
    /\ adv_now < StartTicks + MaxAdvTicks
    /\ adv_now' = adv_now + 1
    /\ UNCHANGED <<recent_alerts, alert_hashes, last_alert_times, adv_alert,
                   adv_result, notAdv>>

\* create_alert (no geofence zone is loaded, so the geofence modifier is 1.0;
\* the metrics of these driver states carry no confidence)
CreateAlert(driver_state, duration, confidence) ==
    LET severity == DetermineSeverity(driver_state, 0, duration)
        hash == AlertHash(driver_state, severity, confidence)
        suppress == ShouldSuppressAlert(hash, severity)
    IN  /\ adv_alert' = hash
        /\ IF suppress # "no"
           THEN /\ adv_result' = suppress
                /\ UNCHANGED <<recent_alerts, alert_hashes, last_alert_times>>
           ELSE /\ alert_hashes' = alert_hashes \cup {hash}
                /\ last_alert_times' = [last_alert_times EXCEPT ![severity] = adv_now]
                /\ recent_alerts' = DequeAppend(recent_alerts, hash)
                /\ adv_result' = "created"
        /\ UNCHANGED <<adv_now, notAdv>>

AdvNext ==
    \/ AdvTick
    \/ \E ds \in DriverStates, du \in Durations, c \in Confidences :
          CreateAlert(ds, du, c)

(* ====================================================================== *)
(*      eye-closure tracking  (core/detector.py, multimodal_detector.py)  *)
(* ====================================================================== *)

\* the two detectors of the repository
D == "DrowsinessDetector"
E == "EnhancedDriverDetector"
Detectors == {D, E}

\* An EAR of 1.0 in model units.  Every EAR the model forms is a whole number
\* of units: a per-eye EAR is a multiple of 120 units (0.01), the average of
\* two eyes a multiple of 60, and a mean over 1..6 such averages is whole.
EarUnits == 12000

\* config.py as shipped
DefaultTuning ==
    [SMOOTHING_WINDOW |-> 5,
     CALIBRATION_FRAMES |-> 90,
     PERCLOS_WINDOW |-> 300,
     CONSEC_FRAMES |-> 20,
     CALIBRATION_DURATION |-> 90]

\* the same constants scaled down for exhaustive exploration
ScaledTuning ==
    [SMOOTHING_WINDOW |-> SmallSmoothingWindow,
     CALIBRATION_FRAMES |-> SmallCalibrationFrames,
     PERCLOS_WINDOW |-> SmallPerclosWindow,
     CONSEC_FRAMES |-> SmallConsecFrames,
     CALIBRATION_DURATION |-> SmallCalibrationFrames]

\* EAR_THRESHOLD = 0.25, the threshold before calibration (both detectors)
EAR_THRESHOLD == [num |-> EarUnits, den |-> 4]
\* PERCLOS_THRESHOLD = 0.3
PERCLOS_THRESHOLD == [num |-> 3, den |-> 10]

\* one eye as the landmarks show it: the two lid-to-lid distances and the
\* corner-to-corner distance, in pixels
OpenEye == [v1 |-> 15, v2 |-> 15, h |-> 50]
ClosedEye == [v1 |-> 6, v2 |-> 6, h |-> 50]
\* both corners of the eye fall on one pixel
DegenerateEye == [v1 |-> 0, v2 |-> 0, h |-> 0]
\* an eye of EAR 0.15
NarrowEye == [v1 |-> 15, v2 |-> 15, h |-> 100]
\* the frames offered to the detectors: <<left eye, right eye>>
Faces ==
    {<<OpenEye, OpenEye>>, <<ClosedEye, ClosedEye>>, <<DegenerateEye, OpenEye>>,
     <<DegenerateEye, DegenerateEye>>}

RECURSIVE SeqSum(_)
SeqSum(s) == IF s = <<>> THEN 0 ELSE Head(s) + SeqSum(Tail(s))

\* np.mean of a non-empty list of EARs
Mean(s) == SeqSum(s) \div Len(s)

\* ear.calculate_ear : (v1 + v2) / (2.0 * h), and 0.0 when h == 0
CalculateEar(eye) ==
    IF eye.h = 0 THEN 0 ELSE ((eye.v1 + eye.v2) * EarUnits) \div (2 * eye.h)

\* EnhancedDriverDetector.calculate_ear : the same formula and the same 0.0
EnhancedCalculateEar(eye) ==
    IF eye.h = 0 THEN 0 ELSE ((eye.v1 + eye.v2) * EarUnits) \div (2 * eye.h)

\* whether the eye geometry of a frame could be computed
FrameKind(face) ==
    IF face[1].h = 0 \/ face[2].h = 0 THEN "degenerate" ELSE "ok"

\* collections.deque(maxlen).append
DequeAppendMax_unbounded(d, x, maxlen) == Append(d, x)
DequeAppendMax(d, x, maxlen) ==
    IF Len(d) >= maxlen THEN Append(Tail(d), x) ELSE Append(d, x)

\* baseline * 0.8 (detector.py) and baseline * 0.7 (multimodal_detector.py)
CalibrationRatio(d) == IF d = D THEN [num |-> 4, den |-> 5] ELSE [num |-> 7, den |-> 10]

\* np.mean(samples) * ratio, kept as an exact fraction
Threshold(samples, ratio) ==
    [num |-> ratio.num * SeqSum(samples), den |-> ratio.den * Len(samples)]

\* `ear < threshold` on binary floating point: decided by the exact values,
\* except that two values which are equal as exact numbers (and are not both
\* exactly 0.0) may round to either side of each other
Below(ear, threshold) ==
    IF ear * threshold.den < threshold.num THEN {TRUE}
    ELSE IF ear * threshold.den > threshold.num \/ ear = 0 THEN {FALSE}
    ELSE BOOLEAN

\* `if self.is_calibrating:`
InCalibration_byCounter(d) ==
    calibration_frames[d] <=
        (IF d = D THEN tuning.CALIBRATION_FRAMES ELSE tuning.CALIBRATION_DURATION)
InCalibration_inverted(d) == ~is_calibrating[d]
InCalibration(d) == is_calibrating[d]

\* `if self.calibration_frames >= CALIBRATION_FRAMES:`
CalibrationDone_early(frames, n) == frames + 1 >= n
CalibrationDone(frames, n) == frames >= n

\* frame_count after a frame
FrameCount_noReset(is_closed, count) == IF is_closed THEN count + 1 ELSE count
FrameCount(is_closed, count) == IF is_closed THEN count + 1 ELSE 0

\* np.mean(self.closed_history)
Perclos(closed) ==
    IF Len(closed) > 0 THEN [num |-> SeqSum(closed), den |-> Len(closed)]
    ELSE [num |-> 0, den |-> 1]

\* `self.frame_count >= CONSEC_FRAMES or perclos > PERCLOS_THRESHOLD`
AlertCondition(count, p) ==
    \/ count >= tuning.CONSEC_FRAMES
    \/ p.num * PERCLOS_THRESHOLD.den > PERCLOS_THRESHOLD.num * p.den

\* the text recv reports for the frame
Reason_fatigueFirst(count, p) ==
    IF ~AlertCondition(count, p) THEN "NONE"
    ELSE IF p.num * PERCLOS_THRESHOLD.den > PERCLOS_THRESHOLD.num * p.den
         THEN "FATIGUE DETECTED!"
    ELSE "MICRO-SLEEP!"
Reason(count, p) ==
    IF ~AlertCondition(count, p) THEN "NONE"
    ELSE IF count >= tuning.CONSEC_FRAMES THEN "MICRO-SLEEP!"
    ELSE "FATIGUE DETECTED!"

\* EARSmoother.add : `if len(self.buffer) > self.window_size: self.buffer.pop(0)`
SmootherPush_dropNewest(buf, ear, n) ==
    IF Len(buf) + 1 > n THEN buf ELSE Append(buf, ear)
SmootherPush(buf, ear, n) ==
    IF Len(buf) + 1 > n THEN Tail(Append(buf, ear)) ELSE Append(buf, ear)

\* EARs offered to EARSmoother.add, in hundredths
SmootherInputs == {15, 30}

\* EARSmoother.is_ready : len(self.buffer) >= self.window_size // 2
IsReady(buf, n) == Len(buf) >= n \div 2

EyeInit(t) ==
    /\ tuning = t
    /\ last_frame = [detector |-> "none", kind |-> "none"]
    /\ is_calibrating = [d \in Detectors |-> TRUE]
    /\ calibration_frames = [d \in Detectors |-> 0]
    /\ ear_threshold = [d \in Detectors |-> EAR_THRESHOLD]
    /\ samples_log = [d \in Detectors |-> <<>>]
    /\ ear_history = <<>>
    /\ calibration_data = <<>>
    /\ closed_history = <<>>
    /\ frame_count = 0
    /\ drowsy = FALSE
    /\ alarm_thread = "None"
    /\ closed_log = <<>>
    /\ last_reason = "NONE"
    /\ perclos = [num |-> 0, den |-> 1]
    /\ raw_log = <<>>
    /\ calibration_buffer = <<>>
    /\ blink_history = <<>>
    /\ drowsy_frames = 0
    /\ alert_frames = 0
    /\ last_blink_time = 0
    /\ cam_time = 0
    /\ returned_state = "none"
    /\ window_size = 5
    /\ buffer = <<>>
    /\ adds = <<>>
    /\ smoothed = [num |-> 0, den |-> 1]

(* ---------------------- DrowsinessDetector.recv ----------------------- *)
\* frames with a face that the detector has processed
FramesProcessed == calibration_frames[D] + Len(closed_log)

\* `if detection_result.face_landmarks:` is false : nothing is touched
Recv_NoFace ==
    /\ last_frame.detector \in {"none", D}
    /\ last_frame' = [detector |-> D, kind |-> "no_face"]
    /\ UNCHANGED <<tuning, calibVars, dVars, dHist, eVars, smVars, notEye>>

\* the calibration branch (lines 78-93)
Recv_Calibrate(ear, raw_ear) ==
    LET data == Append(calibration_data, ear)
        frames == calibration_frames[D] + 1
        done == CalibrationDone(frames, tuning.CALIBRATION_FRAMES)
    IN  /\ calibration_data' = data
        /\ calibration_frames' = [calibration_frames EXCEPT ![D] = frames]
        /\ ear_threshold' =
              IF done
              THEN [ear_threshold EXCEPT ![D] = Threshold(data, CalibrationRatio(D))]
              ELSE ear_threshold
        /\ is_calibrating' =
              IF done THEN [is_calibrating EXCEPT ![D] = FALSE] ELSE is_calibrating
        /\ samples_log' = [samples_log EXCEPT ![D] = Append(@, ear)]
        /\ raw_log' = Append(raw_log, raw_ear)
        /\ UNCHANGED <<closed_history, frame_count, drowsy, alarm_thread,
                       closed_log, last_reason, perclos>>

\* the detection branch (lines 95-125)
Recv_Detect(is_closed) ==
    LET closed == DequeAppendMax(closed_history, IF is_closed THEN 1 ELSE 0,
                                 tuning.PERCLOS_WINDOW)
        p == Perclos(closed)
        count == FrameCount(is_closed, frame_count)
        alert == AlertCondition(count, p)
    IN  /\ closed_history' = closed
        /\ perclos' = p
        /\ frame_count' = count
        /\ drowsy' = IF alert THEN TRUE ELSE IF is_closed THEN drowsy ELSE FALSE
        /\ last_reason' = Reason(count, p)
        /\ alarm_thread' = IF alert /\ alarm_thread # "alive" THEN "alive"
                           ELSE alarm_thread
        /\ closed_log' = Append(closed_log, is_closed)
        /\ UNCHANGED <<calibVars, calibration_data, raw_log>>

\* recv on a frame in which a face was found
Recv_Face(face) ==
    LET raw_ear == (CalculateEar(face[1]) + CalculateEar(face[2])) \div 2
        hist == DequeAppendMax(ear_history, raw_ear, tuning.SMOOTHING_WINDOW)
        ear == Mean(hist)
    IN  /\ last_frame.detector \in {"none", D}
        /\ ear_history' = hist
        /\ last_frame' = [detector |-> D, kind |-> FrameKind(face)]
        /\ IF InCalibration(D)
           THEN Recv_Calibrate(ear, raw_ear)
           ELSE \E is_closed \in Below(ear, ear_threshold[D]) : Recv_Detect(is_closed)
        /\ UNCHANGED <<tuning, eVars, smVars, notEye>>

\* recv on any frame of a session of at most MaxFrames frames with a face
Recv ==
    /\ FramesProcessed < MaxFrames
    /\ \E face \in Faces : Recv_Face(face)

\* the thread running play_alarm_sound comes to its end
AlarmEnds ==
    /\ alarm_thread = "alive"
    /\ alarm_thread' = "finished"
    /\ UNCHANGED <<tuning, last_frame, calibVars, ear_history, calibration_data,
                   closed_history, frame_count, drowsy, dHist, eVars, smVars,
                   notEye>>

(* ---------------- EnhancedDriverDetector.process_frame ---------------- *)
\* time.time() is counted in frame periods of 1/30 s; a call comes one or
\* four periods after the previous one
FramePeriods == {1, 4}

\* `if not landmarks:` : SOBER_ALERT is returned and nothing is touched
ProcessFrame_NoLandmarks ==
    /\ last_frame.detector \in {"none", E}
    /\ last_frame' = [detector |-> E, kind |-> "no_face"]
    /\ returned_state' = "Sober & Alert"
    /\ UNCHANGED <<tuning, calibVars, dVars, dHist, calibration_buffer,
                   blink_history, drowsy_frames, alert_frames, last_blink_time,
                   cam_time, smVars, notEye>>

\* the calibration branch (lines 237-250)
ProcessFrame_Calibrate(ear) ==
    LET samples == Append(calibration_buffer, ear)
        frames == calibration_frames[E] + 1
        done == CalibrationDone(frames, tuning.CALIBRATION_DURATION)
    IN  /\ calibration_frames' = [calibration_frames EXCEPT ![E] = frames]
        /\ ear_threshold' =
              IF done
              THEN [ear_threshold EXCEPT ![E] = Threshold(samples, CalibrationRatio(E))]
              ELSE ear_threshold
        /\ is_calibrating' =
              IF done THEN [is_calibrating EXCEPT ![E] = FALSE] ELSE is_calibrating
        /\ calibration_buffer' = IF done THEN <<>> ELSE samples
        /\ samples_log' = [samples_log EXCEPT ![E] = Append(@, ear)]
        /\ returned_state' = "Calibrating..."
        /\ UNCHANGED <<blink_history, drowsy_frames, alert_frames, last_blink_time>>

\* e < self.ear_threshold for an EAR already in blink_history
WasBelow(e, threshold) == e * threshold.den < threshold.num

\* update_blink_rate, calculate_perclos and classify_driver_state (lines 252-273)
ProcessFrame_Classify(ear, below, t, nodding) ==
    LET threshold == ear_threshold[E]
        blink_start == /\ below
                       /\ Len(blink_history) > 0
                       /\ ~WasBelow(blink_history[Len(blink_history)], threshold)
        appended == Append(blink_history, ear)
        history1 == IF Len(appended) > 1800 THEN Tail(appended) ELSE appended
        \* calculate_perclos([ear] * 30), in thirtieths
        closed_count == IF below THEN 30 ELSE 0
        alert1 == IF below THEN 0 ELSE alert_frames + 1
        drowsy1 == IF below THEN drowsy_frames + 1
                   ELSE IF alert1 > 10 THEN 0 ELSE drowsy_frames
        recent == SubSeq(history1,
                         (IF Len(history1) > 900 THEN Len(history1) - 900 ELSE 0) + 1,
                         Len(history1))
        closures == Cardinality({i \in DOMAIN recent : WasBelow(recent[i], threshold)})
        intoxication_score ==
            (IF nodding THEN 1 ELSE 0)
            + (IF closures < 5 /\ Len(history1) > 300 THEN 1 ELSE 0)
    IN  /\ last_blink_time' =
              IF ~blink_start THEN last_blink_time
              ELSE IF last_blink_time > 0
                   THEN (IF t - last_blink_time > 3 THEN t ELSE last_blink_time)
                   ELSE t
        /\ blink_history' = history1
        /\ alert_frames' = alert1
        /\ drowsy_frames' = drowsy1
        /\ returned_state' =
              IF drowsy1 > 90
              THEN (IF closed_count * 10 > 9 * 30 THEN "Asleep" ELSE "Sleepy/Drowsy")
              ELSE IF intoxication_score >= 2 THEN "Drunk"
              ELSE "Sober & Alert"
        /\ UNCHANGED <<calibVars, calibration_buffer>>

\* process_frame on landmarks of a face
ProcessFrame_Landmarks(face, dt, nodding) ==
    LET ear == (EnhancedCalculateEar(face[1]) + EnhancedCalculateEar(face[2])) \div 2
        t == cam_time + dt
    IN  /\ last_frame.detector \in {"none", E}
        /\ cam_time' = t
        /\ last_frame' = [detector |-> E, kind |-> FrameKind(face)]
        /\ IF InCalibration(E)
           THEN ProcessFrame_Calibrate(ear)
           ELSE \E below \in Below(ear, ear_threshold[E]) :
                    ProcessFrame_Classify(ear, below, t, nodding)
        /\ UNCHANGED <<tuning, dVars, dHist, smVars, notEye>>

\* process_frame in a session of at most MaxEnhancedFrames frames with landmarks
ProcessFrame ==
    /\ calibration_frames[E] + Len(blink_history) < MaxEnhancedFrames
    /\ \E face \in Faces, dt \in FramePeriods, nodding \in BOOLEAN :
          ProcessFrame_Landmarks(face, dt, nodding)

\* One session of one detector: the two detector objects share no state, so
\* a behaviour exercises either the one or the other.
TrackerNext ==
    \/ Recv_NoFace
    \/ Recv
    \/ AlarmEnds
    \/ ProcessFrame_NoLandmarks
    \/ ProcessFrame

\* the end-to-end run: 90 frames of EAR 0.30, then 25 frames of EAR 0.15
ScenarioFrame ==
    /\ FramesProcessed < tuning.CALIBRATION_FRAMES + 25
    /\ IF FramesProcessed < tuning.CALIBRATION_FRAMES
       THEN Recv_Face(<<OpenEye, OpenEye>>)
       ELSE Recv_Face(<<NarrowEye, NarrowEye>>)

(* --------------------------- EARSmoother ------------------------------ *)
\* EARSmoother(window_size=n)
Smoother_New(n) ==
    /\ window_size' = n
    /\ buffer' = <<>>
    /\ adds' = <<>>
    /\ UNCHANGED <<smoothed, tuning, last_frame, calibVars, dVars, dHist, eVars, notEye>>

\* add(ear) : returns the mean of the buffer
Smoother_Add(ear) ==
    LET buf == SmootherPush(buffer, ear, window_size)
    IN  /\ Len(adds) < MaxAdds
        /\ buffer' = buf
        /\ smoothed' = [num |-> SeqSum(buf), den |-> Len(buf)]
        /\ adds' = Append(adds, ear)
        /\ UNCHANGED <<window_size, tuning, last_frame, calibVars, dVars, dHist,
                       eVars, notEye>>

\* reset()
Smoother_Reset ==
    /\ buffer # <<>>
    /\ buffer' = <<>>
    /\ adds' = <<>>
    /\ UNCHANGED <<window_size, smoothed, tuning, last_frame, calibVars, dVars,
                   dHist, eVars, notEye>>

SmootherNext ==
    \/ \E n \in 1..MaxWindow : Smoother_New(n)
    \/ \E ear \in SmootherInputs : Smoother_Add(ear)
    \/ Smoother_Reset

(* ====================================================================== *)
(*        VehicleDynamicsAnalyzer  (src/core/vehicle_dynamics.py)         *)
(* ====================================================================== *)
\* Numbers are exact integers: steering entropy in EntropyUnits (1000 = 1.0
\* bit), lane deviation in LaneUnits (100 = 1 m, i.e. centimetres), speed
\* variability in CvUnits (100 = 1 %), scores in ScoreUnits (12000 = 1.0).
\* Steering angles are whole degrees, lane positions whole centimetres and
\* speeds whole km/h.
EntropyUnits == 1000
LaneUnits == 100
CvUnits == 100
ScoreUnits == 12000

\* Python None for an optional object, and an object that is present
Absent == <<>>
Some(x) == <<x>>

\* one telemetry sample: a finite number, np.nan or np.inf
Num(v) == [kind |-> "num", v |-> v]
NaN == [kind |-> "nan", v |-> 0]
Inf == [kind |-> "inf", v |-> 0]

\* an argument of analyze(): None, or an array.  entropy is the value that
\* Boer's computation (IQR filter, second-order prediction errors, 9-bin
\* histogram, Shannon entropy) yields for the array when it is a valid
\* steering batch; that computation is not redone here, the batch carries
\* its result
NoBatch == [given |-> FALSE, data |-> <<>>, entropy |-> 0]
Batch(data) == [given |-> TRUE, data |-> data, entropy |-> 0]
Steering(data, e) == [given |-> TRUE, data |-> data, entropy |-> e]

\* min_samples of the analyzer (30), scaled down
min_samples == SmallMinSamples

\* k samples of value a followed by k samples of value b
PairBatch(a, b, k) == [i \in 1..(2 * k) |-> Num(IF i <= k THEN a ELSE b)]
\* one sample too few
ShortBatch(a) == [i \in 1..(min_samples - 1) |-> Num(a)]
\* a batch of sufficient length whose first sample is s
SpoiltBatch(s, a) == [i \in 1..(2 * min_samples) |-> IF i = 1 THEN s ELSE Num(a)]

SteeringBatches ==
    {NoBatch,
     Steering(PairBatch(-1, 1, min_samples), 0),
     Steering(PairBatch(-5, 5, min_samples), 300),
     Steering(PairBatch(-10, 10, min_samples), 480),
     Steering(PairBatch(-20, 20, min_samples), 600),
     Steering(PairBatch(-40, 40, min_samples), 800),
     Steering(ShortBatch(10), 0),
     Steering(SpoiltBatch(NaN, 10), 0)}
LaneBatches ==
    {NoBatch,
     Batch(PairBatch(-20, 20, min_samples)),
     Batch(PairBatch(-60, 60, min_samples)),
     Batch(PairBatch(-100, 100, min_samples)),
     Batch(SpoiltBatch(Num(600), 20))}
SpeedBatches ==
    {NoBatch,
     Batch(PairBatch(45, 55, min_samples)),
     Batch(PairBatch(40, 60, min_samples)),
     Batch(PairBatch(3, 7, min_samples)),
     Batch(PairBatch(2, 4, min_samples)),
     Batch(ShortBatch(50)),
     Batch(SpoiltBatch(Inf, 50)),
     Batch(SpoiltBatch(Num(301), 50))}

\* the thresholds an analyzer is constructed with: the defaults (0.45 bit,
\* 15 %, 0.5 m) and one other set
DefaultThresholds == [steering_entropy |-> 450, speed_var |-> 1500, lane_dev |-> 50]
ThresholdSets ==
    {DefaultThresholds, [steering_entropy |-> 300, speed_var |-> 2500, lane_dev |-> 70]}

\* Python min()
PyMin(a, b) == IF a < b THEN a ELSE b
\* Python max()
PyMax(a, b) == IF a > b THEN a ELSE b

RECURSIVE SumV(_)
SumV(data) == IF data = <<>> THEN 0 ELSE Head(data).v + SumV(Tail(data))
RECURSIVE SumSq(_)
SumSq(data) == IF data = <<>> THEN 0 ELSE Head(data).v * Head(data).v + SumSq(Tail(data))
\* the largest r in lo..hi with r * r <= q, by bisection
RECURSIVE SqrtBetween(_, _, _)
SqrtBetween(q, lo, hi) ==
    IF lo = hi THEN lo
    ELSE LET mid == (lo + hi + 1) \div 2
         IN  IF mid * mid <= q THEN SqrtBetween(q, mid, hi)
             ELSE SqrtBetween(q, lo, mid - 1)
\* np.sqrt; the batches offered below are built so that the root is whole
Sqrt(q) == SqrtBetween(q, 0, PyMin(q, 46340))
\* len(data) * np.std(data), as np.std computes the population deviation:
\* std^2 = sum(x^2)/n - (sum(x)/n)^2
StdTimesLen(data) == Sqrt(Len(data) * SumSq(data) - SumV(data) * SumV(data))

\* validate_input : empty, too short, NaN/Inf, below min_value, above
\* max_value are rejected; nothing is recorded but a log line
ValidateInput(data, min_value, max_value) ==
    /\ Len(data) # 0
    /\ Len(data) >= min_samples
    /\ \A i \in DOMAIN data : data[i].kind = "num"
    /\ \A i \in DOMAIN data : data[i].v >= min_value
    /\ \A i \in DOMAIN data : data[i].v <= max_value

\* calculate_steering_entropy : 0.0 for a batch that fails validation
CalculateSteeringEntropy(batch) ==
    IF ~ValidateInput(batch.data, -540, 540) THEN 0 ELSE batch.entropy

\* calculate_lane_deviation : np.std(lane_position - mean), 0.0 when invalid
CalculateLaneDeviation(batch) ==
    IF ~ValidateInput(batch.data, -5 * LaneUnits, 5 * LaneUnits) THEN 0
    ELSE StdTimesLen(batch.data) \div Len(batch.data)

\* mean_speed < 5.0
TooSlow_inclusive(data) == SumV(data) <= 5 * Len(data)
TooSlow(data) == SumV(data) < 5 * Len(data)

\* calculate_speed_variability : (std / mean) * 100, 0.0 when invalid or slow
CalculateSpeedVariability(batch) ==
    IF ~ValidateInput(batch.data, 0, 300) THEN 0
    ELSE IF TooSlow(batch.data) THEN 0
    ELSE (StdTimesLen(batch.data) * 100 * CvUnits) \div SumV(batch.data)

\* calculate_risk_score : 0.5 * min(1, e / 1.0) + 0.25 * min(1, sv / 30.0)
\*                        + 0.25 * min(1, ld / 1.0), clipped to [0, 1]
CalculateRiskScore(steering_entropy, speed_var, lane_dev) ==
    LET entropy_norm == PyMin(EntropyUnits, steering_entropy)
        speed_norm == PyMin(30 * CvUnits, speed_var)
        lane_norm == PyMin(LaneUnits, lane_dev)
        risk_score == (50 * ScoreUnits * entropy_norm) \div (100 * EntropyUnits)
                      + (25 * ScoreUnits * speed_norm) \div (100 * 30 * CvUnits)
                      + (25 * ScoreUnits * lane_norm) \div (100 * LaneUnits)
    IN  PyMax(0, PyMin(ScoreUnits, risk_score))

\* speed_var > speed_var_threshold or lane_dev > lane_dev_threshold
SecondaryAbove_both(th, speed_var, lane_dev) ==
    speed_var > th.speed_var /\ lane_dev > th.lane_dev
SecondaryAbove(th, speed_var, lane_dev) ==
    speed_var > th.speed_var \/ lane_dev > th.lane_dev

\* classify_risk_level
ClassifyRiskLevel(th, risk_score, steering_entropy, speed_var, lane_dev) ==
    IF /\ 10 * steering_entropy > 15 * th.steering_entropy
       /\ SecondaryAbove(th, speed_var, lane_dev)
    THEN "CRITICAL"
    ELSE IF steering_entropy > th.steering_entropy
    THEN IF SecondaryAbove(th, speed_var, lane_dev)
         THEN "HIGH_RISK" ELSE "POSSIBLE_IMPAIRMENT"
    ELSE IF 10 * risk_score > 6 * ScoreUnits
    THEN "POSSIBLE_IMPAIRMENT"
    ELSE "NORMAL"

\* the warnings analyze() collects: one per argument that is None
MissingWarnings(steering, lane, speed) ==
    (IF steering.given THEN <<>> ELSE <<"No steering data provided">>)
    \o (IF lane.given THEN <<>> ELSE <<"No lane position data provided">>)
    \o (IF speed.given THEN <<>> ELSE <<"No speed data provided">>)

\* metrics.is_valid = len(warnings) < 3
IsValid_atMostThree(warnings) == Len(warnings) <= 3
IsValid(warnings) == Len(warnings) < 3

\* the VehicleMetrics analyze() returns (the timestamp is left out); the
\* arguments are None or one-dimensional arrays, for which no step of the
\* try block raises
AnalyzeMetrics(th, steering, lane, speed) ==
    LET e == IF steering.given THEN CalculateSteeringEntropy(steering) ELSE 0
        ld == IF lane.given THEN CalculateLaneDeviation(lane) ELSE 0
        sv == IF speed.given THEN CalculateSpeedVariability(speed) ELSE 0
        risk == CalculateRiskScore(e, sv, ld)
        warnings == MissingWarnings(steering, lane, speed)
    IN  [steering_entropy |-> e,
         lane_deviation |-> ld,
         speed_variability |-> sv,
         risk_score |-> risk,
         risk_level |-> ClassifyRiskLevel(th, risk, e, sv, ld),
         sample_count |-> IF steering.given THEN Len(steering.data) ELSE 0,
         is_valid |-> IsValid(warnings),
         warnings |-> warnings]

\* self._analysis_count += 1
CountAfterAnalyze_unchanged(count) == count
CountAfterAnalyze(count) == count + 1

\* get_statistics
GetStatistics ==
    [total_analyses |-> analysis_count,
     last_metrics |-> last_metrics,
     thresholds |-> thresholds]

VehicleInit ==
    /\ thresholds = DefaultThresholds
    /\ last_metrics = Absent
    /\ analysis_count = 0
    /\ analyses = 0
    /\ vd_call = [op |-> "new", steering |-> NoBatch, lane |-> NoBatch,
                  speed |-> NoBatch, ret |-> Absent]

\* VehicleDynamicsAnalyzer(steering_entropy_threshold, speed_var_threshold,
\*                         lane_dev_threshold)
Analyzer_New(th) ==
    /\ thresholds' = th
    /\ last_metrics' = Absent
    /\ analysis_count' = 0
    /\ analyses' = 0
    /\ vd_call' = [op |-> "new", steering |-> NoBatch, lane |-> NoBatch,
                   speed |-> NoBatch, ret |-> Absent]
    /\ UNCHANGED <<fusVars, notFusion>>

\* analyze(steering_angles, lane_position, speed_kmh)
Analyze(steering, lane, speed) ==
    LET metrics == AnalyzeMetrics(thresholds, steering, lane, speed)
    IN  /\ analyses < MaxAnalyses
        /\ last_metrics' = Some(metrics)
        /\ analysis_count' = CountAfterAnalyze(analysis_count)
        /\ analyses' = analyses + 1
        /\ vd_call' = [op |-> "analyze", steering |-> steering, lane |-> lane,
                       speed |-> speed, ret |-> Some(metrics)]
        /\ UNCHANGED <<thresholds, fusVars, notFusion>>

\* reset()
Analyzer_Reset ==
    /\ last_metrics' = Absent
    /\ analysis_count' = 0
    /\ analyses' = 0
    /\ vd_call' = [op |-> "reset", steering |-> NoBatch, lane |-> NoBatch,
                   speed |-> NoBatch, ret |-> Absent]
    /\ UNCHANGED <<thresholds, fusVars, notFusion>>

VehicleNext ==
    \/ \E th \in ThresholdSets : Analyzer_New(th)
    \/ \E steering \in SteeringBatches, lane \in LaneBatches, speed \in SpeedBatches :
          Analyze(steering, lane, speed)
    \/ Analyzer_Reset

(* ====================================================================== *)
(*                MultiModalDetector  (src/core/fusion.py)                *)
(* ====================================================================== *)
\* PERCLOS of a DetectionEvent is in whole percent.  The combined score and
\* the confidence are exact fractions [num, den] of 1.0, in lowest terms.
RECURSIVE GCD(_, _)
GCD(a, b) == IF b = 0 THEN a ELSE GCD(b, a % b)
\* n / d for n >= 0 and d > 0
Frac(n, d) == [num |-> n \div GCD(n, d), den |-> d \div GCD(n, d)]
\* a < b, a <= b for fractions with positive denominators
FracLt(a, b) == a.num * b.den < b.num * a.den
FracLe(a, b) == a.num * b.den <= b.num * a.den
\* np.clip(x, 0.0, 1.0)
Clip01(x) ==
    IF x.num < 0 THEN Frac(0, 1) ELSE IF x.num > x.den THEN Frac(1, 1) ELSE x
\* x * (n / d)
Scale(x, n, d) == Frac(x.num * n, x.den * d)

\* AlertLevel
AlertLevels == {"NONE", "WARNING", "DANGER", "CRITICAL"}
\* AlertLevel.value
AlertValue(level) ==
    CASE level = "NONE" -> 0 [] level = "WARNING" -> 1
      [] level = "DANGER" -> 2 [] level = "CRITICAL" -> 3

\* the DetectionEvents handed to fuse_detections (ear_value, reason and
\* metadata are not used here); the events of the two upper levels report a
\* run of closed frames, the others none
\* (PERCLOS values on which the float arithmetic of the code and the exact
\* arithmetic used here agree in every comparison)
PerclosInputs == {0, 13, 40}
VisualEvents ==
    {Absent} \cup
    {Some([alert_level |-> a, perclos |-> p,
           frame_count |-> IF a \in {"DANGER", "CRITICAL"} THEN 25 ELSE 0]) :
        a \in AlertLevels, p \in PerclosInputs}

\* the telemetry handed to process_vehicle_data
FusionTelemetry ==
    {<<NoBatch, NoBatch, NoBatch>>,
     <<Steering(PairBatch(-20, 20, min_samples), 600), NoBatch, NoBatch>>,
     <<Steering(PairBatch(-40, 40, min_samples), 800),
       Batch(PairBatch(-60, 60, min_samples)), Batch(PairBatch(40, 60, min_samples))>>,
     <<Steering(PairBatch(-10, 10, min_samples), 480),
       Batch(PairBatch(-60, 60, min_samples)), NoBatch>>,
     <<Steering(PairBatch(-5, 5, min_samples), 300),
       Batch(PairBatch(-100, 100, min_samples)), Batch(PairBatch(3, 7, min_samples))>>,
     <<Steering(SpoiltBatch(NaN, 10), 0),
       Batch(PairBatch(-20, 20, min_samples)), NoBatch>>}

\* fusion_strategy: the three named strategies and any other string
Strategies == {"weighted", "max", "bayesian", "average"}

\* alert_scores, in tenths
AlertScore(level) ==
    CASE level = "NONE" -> 0 [] level = "WARNING" -> 4
      [] level = "DANGER" -> 7 [] level = "CRITICAL" -> 10

\* _calculate_visual_score : base_score * 0.7 + min(1.0, perclos / 0.3) * 0.3
CalculateVisualScore(event) ==
    IF event = Absent THEN 0
    ELSE LET base_score == AlertScore(event[1].alert_level)
             score == (7 * base_score * ScoreUnits) \div 100
                      + (3 * PyMin(30, event[1].perclos) * ScoreUnits) \div (10 * 30)
         IN  PyMax(0, PyMin(ScoreUnits, score))

\* _calculate_vehicle_score
CalculateVehicleScore(metrics) ==
    IF metrics = Absent \/ ~metrics[1].is_valid THEN 0
    ELSE PyMax(0, PyMin(ScoreUnits, metrics[1].risk_score))

\* _weighted_fusion, weights visual 0.6 and vehicle 0.4
WeightedFusion_noFallback(visual_score, vehicle_score) ==
    Clip01(Frac(6 * visual_score + 4 * vehicle_score, 10 * ScoreUnits))
WeightedFusion(visual_score, vehicle_score) ==
    IF visual_score = 0 /\ vehicle_score > 0 THEN Frac(vehicle_score, ScoreUnits)
    ELSE IF vehicle_score = 0 /\ visual_score > 0 THEN Frac(visual_score, ScoreUnits)
    ELSE Clip01(Frac(6 * visual_score + 4 * vehicle_score, 10 * ScoreUnits))

\* _bayesian_fusion : prior 0.05 = 5/100, so that
\* posterior = 5 * lr / (5 * lr + 95), scaled by the larger score
BayesianFusion_likelihoodOnly(visual_score, vehicle_score) ==
    IF visual_score = 0 /\ vehicle_score = 0 THEN Frac(0, 1)
    ELSE LET likelihood_ratio ==
                 IF visual_score > 0 /\ vehicle_score > 0 THEN 10 ELSE 3
         IN  Clip01(Scale(Frac(5 * likelihood_ratio, 100),
                          PyMax(visual_score, vehicle_score), ScoreUnits))
BayesianFusion(visual_score, vehicle_score) ==
    IF visual_score = 0 /\ vehicle_score = 0 THEN Frac(0, 1)
    ELSE LET likelihood_ratio ==
                 IF visual_score > 0 /\ vehicle_score > 0 THEN 10 ELSE 3
             posterior == Frac(5 * likelihood_ratio, 5 * likelihood_ratio + 95)
         IN  Clip01(Scale(posterior, PyMax(visual_score, vehicle_score), ScoreUnits))

\* the strategy dispatch of fuse_detections
CombinedScore(strategy, visual_score, vehicle_score) ==
    IF strategy = "weighted" THEN WeightedFusion(visual_score, vehicle_score)
    ELSE IF strategy = "max" THEN Frac(PyMax(visual_score, vehicle_score), ScoreUnits)
    ELSE IF strategy = "bayesian" THEN BayesianFusion(visual_score, vehicle_score)
    ELSE Frac(visual_score + vehicle_score, 2 * ScoreUnits)

\* _classify_impairment
ClassifyImpairment_intoxicationFirst(visual_event, vehicle_metrics, combined_score) ==
    LET has_visual == visual_event # Absent
        has_vehicle == vehicle_metrics # Absent /\ vehicle_metrics[1].is_valid
    IN  IF FracLt(combined_score, Frac(3, 10))
        THEN [type |-> "none", confidence |-> Frac(0, 1)]
        ELSE IF ~has_visual /\ ~has_vehicle
        THEN [type |-> "none", confidence |-> Frac(0, 1)]
        ELSE IF /\ has_vehicle
                /\ vehicle_metrics[1].steering_entropy * 10 > 5 * EntropyUnits
                /\ (~has_visual \/ visual_event[1].alert_level = "NONE")
        THEN [type |-> "intoxication", confidence |-> Scale(combined_score, 7, 10)]
        ELSE IF has_visual /\ visual_event[1].perclos > 15
        THEN IF has_vehicle /\ vehicle_metrics[1].risk_level # "NORMAL"
             THEN [type |-> "combined", confidence |-> combined_score]
             ELSE [type |-> "drowsiness", confidence |-> Scale(combined_score, 9, 10)]
        ELSE IF /\ has_visual /\ has_vehicle
                /\ visual_event[1].perclos > 10
                /\ vehicle_metrics[1].risk_score * 10 > 4 * ScoreUnits
        THEN [type |-> "fatigue", confidence |-> Scale(combined_score, 8, 10)]
        ELSE IF FracLt(Frac(5, 10), combined_score)
        THEN [type |-> "combined", confidence |-> Scale(combined_score, 6, 10)]
        ELSE [type |-> "none", confidence |-> Frac(0, 1)]
ClassifyImpairment(visual_event, vehicle_metrics, combined_score) ==
    LET has_visual == visual_event # Absent
        has_vehicle == vehicle_metrics # Absent /\ vehicle_metrics[1].is_valid
    IN  IF FracLt(combined_score, Frac(3, 10))
        THEN [type |-> "none", confidence |-> Frac(0, 1)]
        ELSE IF ~has_visual /\ ~has_vehicle
        THEN [type |-> "none", confidence |-> Frac(0, 1)]
        ELSE IF has_visual /\ visual_event[1].perclos > 15
        THEN IF has_vehicle /\ vehicle_metrics[1].risk_level # "NORMAL"
             THEN [type |-> "combined", confidence |-> combined_score]
             ELSE [type |-> "drowsiness", confidence |-> Scale(combined_score, 9, 10)]
        ELSE IF /\ has_vehicle
                /\ vehicle_metrics[1].steering_entropy * 10 > 5 * EntropyUnits
                /\ (~has_visual \/ visual_event[1].alert_level = "NONE")
        THEN [type |-> "intoxication", confidence |-> Scale(combined_score, 7, 10)]
        ELSE IF /\ has_visual /\ has_vehicle
                /\ visual_event[1].perclos > 10
                /\ vehicle_metrics[1].risk_score * 10 > 4 * ScoreUnits
        THEN [type |-> "fatigue", confidence |-> Scale(combined_score, 8, 10)]
        ELSE IF FracLt(Frac(5, 10), combined_score)
        THEN [type |-> "combined", confidence |-> Scale(combined_score, 6, 10)]
        ELSE [type |-> "none", confidence |-> Frac(0, 1)]

\* _determine_alert_level
DetermineAlertLevel_eitherCritical(combined_score, visual_event, vehicle_metrics) ==
    IF FracLe(Frac(8, 10), combined_score) THEN "CRITICAL"
    ELSE IF \/ (visual_event # Absent /\ visual_event[1].alert_level = "CRITICAL")
            \/ (vehicle_metrics # Absent /\ vehicle_metrics[1].risk_level = "CRITICAL")
    THEN "CRITICAL"
    ELSE IF FracLe(Frac(6, 10), combined_score) THEN "DANGER"
    ELSE IF FracLe(Frac(4, 10), combined_score) THEN "WARNING"
    ELSE "NONE"
DetermineAlertLevel(combined_score, visual_event, vehicle_metrics) ==
    IF FracLe(Frac(8, 10), combined_score) THEN "CRITICAL"
    ELSE IF /\ visual_event # Absent /\ visual_event[1].alert_level = "CRITICAL"
            /\ vehicle_metrics # Absent /\ vehicle_metrics[1].risk_level = "CRITICAL"
    THEN "CRITICAL"
    ELSE IF FracLe(Frac(6, 10), combined_score) THEN "DANGER"
    ELSE IF FracLe(Frac(4, 10), combined_score) THEN "WARNING"
    ELSE "NONE"

\* _collect_indicators : the indicator texts without their formatted numbers
CollectIndicators(visual_event, vehicle_metrics) ==
    LET has_visual == visual_event # Absent
        has_vehicle == vehicle_metrics # Absent /\ vehicle_metrics[1].is_valid
        ve == visual_event[1]
        vm == vehicle_metrics[1]
    IN  [primary |->
             (IF has_visual /\ ve.perclos > 20 THEN <<"High PERCLOS">> ELSE <<>>)
             \o (IF has_visual /\ ve.frame_count >= 20 THEN <<"Micro-sleep">> ELSE <<>>)
             \o (IF has_vehicle /\ vm.steering_entropy > DefaultThresholds.steering_entropy
                 THEN <<"High steering entropy">> ELSE <<>>)
             \o (IF has_vehicle /\ vm.lane_deviation > DefaultThresholds.lane_dev
                 THEN <<"Lane weaving">> ELSE <<>>),
         secondary |->
             (IF has_visual /\ ve.perclos <= 20 /\ ve.perclos > 10
              THEN <<"Elevated PERCLOS">> ELSE <<>>)
             \o (IF has_visual /\ ve.frame_count < 20 /\ ve.frame_count > 0
                 THEN <<"Eyes closing">> ELSE <<>>)
             \o (IF /\ has_vehicle
                    /\ vm.steering_entropy <= DefaultThresholds.steering_entropy
                    /\ 10 * vm.steering_entropy > 8 * DefaultThresholds.steering_entropy
                 THEN <<"Elevated steering entropy">> ELSE <<>>)
             \o (IF has_vehicle /\ vm.speed_variability > DefaultThresholds.speed_var
                 THEN <<"Speed instability">> ELSE <<>>)]

\* if visual_event is None and vehicle_metrics is None: return None
NothingToFuse_either(visual_event, vehicle_metrics) ==
    visual_event = Absent \/ vehicle_metrics = Absent
NothingToFuse(visual_event, vehicle_metrics) ==
    visual_event = Absent /\ vehicle_metrics = Absent

\* the FusedDetection fuse_detections builds (the timestamp is left out)
Fuse(strategy, visual_event, vehicle_metrics) ==
    LET visual_score == CalculateVisualScore(visual_event)
        vehicle_score == CalculateVehicleScore(vehicle_metrics)
        combined_score == CombinedScore(strategy, visual_score, vehicle_score)
        impairment == ClassifyImpairment(visual_event, vehicle_metrics, combined_score)
        indicators == CollectIndicators(visual_event, vehicle_metrics)
    IN  [impairment_type |-> impairment.type,
         confidence |-> impairment.confidence,
         alert_level |-> DetermineAlertLevel(combined_score, visual_event, vehicle_metrics),
         visual_score |-> visual_score,
         vehicle_score |-> vehicle_score,
         combined_score |-> combined_score,
         visual_event |-> visual_event,
         vehicle_metrics |-> vehicle_metrics,
         primary_indicators |-> indicators.primary,
         secondary_indicators |-> indicators.secondary]

NoFuseCall == [op |-> "new", visual_event |-> Absent, vehicle_metrics |-> Absent,
               ret |-> Absent]

FusionInit ==
    /\ enable_vehicle = TRUE
    /\ fusion_strategy = "weighted"
    /\ last_fusion = Absent
    /\ fusion_count = 0
    /\ fuse_call = NoFuseCall

\* MultiModalDetector(enable_vehicle, fusion_strategy)
Detector_New(ev, strategy) ==
    /\ enable_vehicle' = ev
    /\ fusion_strategy' = strategy
    /\ last_fusion' = Absent
    /\ fusion_count' = 0
    /\ fuse_call' = NoFuseCall
    /\ thresholds' = DefaultThresholds
    /\ last_metrics' = Absent
    /\ analysis_count' = 0
    /\ analyses' = 0
    /\ vd_call' = [op |-> "new", steering |-> NoBatch, lane |-> NoBatch,
                   speed |-> NoBatch, ret |-> Absent]
    /\ UNCHANGED notFusion

\* process_vehicle_data(steering_angles, lane_position, speed_kmh)
ProcessVehicleData(steering, lane, speed) ==
    /\ analyses < MaxTelemetry
    /\ IF ~enable_vehicle
       THEN /\ vd_call' = [op |-> "process_vehicle_data", steering |-> steering,
                           lane |-> lane, speed |-> speed, ret |-> Absent]
            /\ UNCHANGED <<thresholds, last_metrics, analysis_count, analyses>>
       ELSE LET metrics == AnalyzeMetrics(thresholds, steering, lane, speed)
            IN  /\ last_metrics' = Some(metrics)
                /\ analysis_count' = CountAfterAnalyze(analysis_count)
                /\ analyses' = analyses + 1
                /\ vd_call' = [op |-> "process_vehicle_data", steering |-> steering,
                               lane |-> lane, speed |-> speed,
                               ret |-> IF metrics.is_valid THEN Some(metrics)
                                       ELSE Absent]
                /\ UNCHANGED thresholds
    /\ UNCHANGED <<fusVars, notFusion>>

\* fuse_detections(visual_event, vehicle_metrics)
FuseDetections(visual_event, vehicle_metrics) ==
    /\ fusion_count < MaxFusions
    /\ IF NothingToFuse(visual_event, vehicle_metrics)
       THEN /\ fuse_call' = [op |-> "fuse_detections", visual_event |-> visual_event,
                             vehicle_metrics |-> vehicle_metrics, ret |-> Absent]
            /\ UNCHANGED <<last_fusion, fusion_count>>
       ELSE LET fusion == Fuse(fusion_strategy, visual_event, vehicle_metrics)
            IN  /\ last_fusion' = Some(fusion)
                /\ fusion_count' = fusion_count + 1
                /\ fuse_call' = [op |-> "fuse_detections",
                                 visual_event |-> visual_event,
                                 vehicle_metrics |-> vehicle_metrics,
                                 ret |-> Some(fusion)]
    /\ UNCHANGED <<enable_vehicle, fusion_strategy, vehVars, notFusion>>

\* MultiModalDetector.reset()
Detector_Reset ==
    /\ IF enable_vehicle
       THEN /\ last_metrics' = Absent
            /\ analysis_count' = 0
            /\ analyses' = 0
            /\ vd_call' = [op |-> "reset", steering |-> NoBatch, lane |-> NoBatch,
                           speed |-> NoBatch, ret |-> Absent]
       ELSE UNCHANGED <<last_metrics, analysis_count, analyses, vd_call>>
    /\ last_fusion' = Absent
    /\ fusion_count' = 0
    /\ fuse_call' = [op |-> "reset", visual_event |-> Absent,
                     vehicle_metrics |-> Absent, ret |-> Absent]
    /\ UNCHANGED <<thresholds, enable_vehicle, fusion_strategy, notFusion>>

FusionNext ==
    \/ \E ev \in BOOLEAN, strategy \in Strategies : Detector_New(ev, strategy)
    \/ \E t \in FusionTelemetry : ProcessVehicleData(t[1], t[2], t[3])
    \/ \E visual_event \in VisualEvents, vehicle_metrics \in {Absent, last_metrics} :
          FuseDetections(visual_event, vehicle_metrics)
    \/ Detector_Reset

(* ====================================================================== *)
(*                      EARCalculator  (core/ear.py)                      *)
(* ====================================================================== *)
\* how many landmarks a face has in the model (478 in MediaPipe Face Mesh)
NumLandmarks == 7
\* calculate_ear calls after which the model stops counting failures
MaxEarFailures == 2

\* EARCalculator.LEFT_EYE_INDICES / RIGHT_EYE_INDICES, scaled to NumLandmarks:
\* the first six and the last six landmarks
LEFT_EYE_INDICES == [k \in 1..6 |-> k - 1]
RIGHT_EYE_INDICES == [k \in 1..6 |-> NumLandmarks - 7 + k]

\* pixel coordinates; every distance between two of these points is an integer
EyeCorners == <<  <<0, 0>>, <<0, 6>>, <<8, 6>>, <<8, 0>>  >>
\* the faces offered : an open eye, a face collapsed into one point, and an
\* eye taller than it is wide
FaceMeshes == {"open", "collapsed", "tall"}
LandmarkAt(face, i) ==
    CASE face = "open"      -> EyeCorners[<<1, 1, 1, 3, 4, 4, 2>>[(i % 7) + 1]]
      [] face = "collapsed" -> EyeCorners[1]
      [] face = "tall"      -> EyeCorners[<<1, 1, 3, 2, 1, 3, 1>>[(i % 7) + 1]]
Landmarks(face) == [k \in 1..NumLandmarks |-> LandmarkAt(face, k - 1)]

\* the index lists a caller may supply: None, an empty list, the three
\* indices of the unit test, and six indices of which the first is replaced
OffIndices == {0 - NumLandmarks - 1, 0 - NumLandmarks, 0 - 1, NumLandmarks}
IndexLists ==
    {Absent, Some(<<>>), Some(<<0, 1, 2>>), Some(LEFT_EYE_INDICES)}
    \cup {Some([LEFT_EYE_INDICES EXCEPT ![k] = v]) : k \in {1}, v \in OffIndices}

\* landmarks[idx] : Python indexing of a sequence of length Len(landmarks);
\* a negative index counts from the end, anything else raises IndexError
InRange(landmarks, idx) == idx >= 0 - Len(landmarks) /\ idx < Len(landmarks)
GetItem(landmarks, idx) ==
    IF idx >= 0 THEN landmarks[idx + 1] ELSE landmarks[Len(landmarks) + idx + 1]

\* EARCalculator.euclidean_distance : np.linalg.norm(p1 - p2)
EuclideanDistance(p1, p2) ==
    Sqrt((p1[1] - p2[1]) * (p1[1] - p2[1]) + (p1[2] - p2[2]) * (p1[2] - p2[2]))

\* calculate_single_eye_ear with min_ear = 0.0 and max_ear = 1.0 : Absent for
\* None, else Some(EAR in EarUnits). Distances are whole pixels, so
\* h < 1e-6 is h = 0; EyeCorners makes the division exact.
CalculateSingleEyeEar(landmarks, eye_indices) ==
    IF Len(eye_indices) # 6 THEN Absent
    ELSE IF \E k \in 1..6 : ~InRange(landmarks, eye_indices[k]) THEN Absent
    ELSE
        LET p == [k \in 1..6 |-> GetItem(landmarks, eye_indices[k])]
            v1 == EuclideanDistance(p[2], p[6])
            v2 == EuclideanDistance(p[3], p[5])
            h  == EuclideanDistance(p[1], p[4])
        IN  IF h = 0 THEN Absent
            ELSE LET ear == ((v1 + v2) * EarUnits) \div (2 * h)
                 IN  IF ~(0 <= ear /\ ear <= EarUnits) THEN Absent ELSE Some(ear)

\* left_eye_indices or self.LEFT_EYE_INDICES : None and an empty list are falsy
OrDefault(indices, default) ==
    IF indices = Absent \/ indices = Some(<<>>) THEN default ELSE indices[1]

\* left_ear or 0.0
OrZero(ear) == IF ear = Absent THEN 0 ELSE ear[1]

\* the EARResult calculate_ear returns for the two single-eye results
EarResult(left_ear, right_ear) ==
    IF left_ear # Absent /\ right_ear # Absent
    THEN LET eye_diff == IF left_ear[1] >= right_ear[1]
                         THEN left_ear[1] - right_ear[1]
                         ELSE right_ear[1] - left_ear[1]
         IN  [ear |-> (left_ear[1] + right_ear[1]) \div 2,
              left_ear |-> left_ear[1], right_ear |-> right_ear[1],
              is_valid |-> TRUE,
              confidence |-> PyMax(0, EarUnits - 10 * eye_diff)]
    ELSE [ear |-> 0, left_ear |-> OrZero(left_ear), right_ear |-> OrZero(right_ear),
          is_valid |-> FALSE, confidence |-> 0]

\* EARCalculator()
EarInit ==
    /\ consecutive_failures = 0
    /\ ear_call = Absent

\* calculate_ear(landmarks, left_eye_indices, right_eye_indices)
Calculator_CalculateEar(face, left_eye_indices, right_eye_indices) ==
    LET landmarks == Landmarks(face)
        left_indices == OrDefault(left_eye_indices, LEFT_EYE_INDICES)
        right_indices == OrDefault(right_eye_indices, RIGHT_EYE_INDICES)
        left_ear == CalculateSingleEyeEar(landmarks, left_indices)
        right_ear == CalculateSingleEyeEar(landmarks, right_indices)
        result == EarResult(left_ear, right_ear)
    IN  /\ consecutive_failures < MaxEarFailures
        /\ consecutive_failures' =
               IF result.is_valid THEN 0 ELSE consecutive_failures + 1
        /\ ear_call' = Some([landmarks |-> landmarks,
                             left_eye_indices |-> left_eye_indices,
                             right_eye_indices |-> right_eye_indices,
                             left_indices |-> left_indices,
                             right_indices |-> right_indices,
                             left_ear |-> left_ear, right_ear |-> right_ear,
                             result |-> result])
        /\ UNCHANGED notEar

EarNext ==
    \E face \in FaceMeshes, left \in IndexLists, right \in IndexLists :
        Calculator_CalculateEar(face, left, right)

(* ====================================================================== *)
(*        AlertSystem : the delivery of queued alerts, step by step       *)
(* ====================================================================== *)
\* callbacks registered with register_callback before the first alert
NumCallbacks == 2

\* nothing accepted, nothing delivered
DeliveryInit ==
    /\ queued_ids = <<>>
    /\ handed = <<>>
    /\ callback_index = 0
    /\ executed = <<>>
    /\ first_failed = 0

\* trigger_alert calls accepted so far (reset() is not called on this path)
Accepted == Len(handed) + Len(queued_ids)

\* self._alert_queue.put(alert_data) ; return True -- the accepted alert is
\* numbered in the order of acceptance
TriggerAlert_PutLogged(t) ==
    /\ pc[t] = "t_put"
    /\ ~QueueFull(alert_queue)
    /\ alert_queue' = Append(alert_queue, AlertData(escalation_level, alert_count))
    /\ queued_ids' = Append(queued_ids, Accepted + 1)
    /\ puts' = puts + 1
    /\ returned_true' = returned_true + 1
    /\ last_ret' = "accepted"
    /\ ReleaseLock(t)
    /\ pc' = [pc EXCEPT ![t] = "idle"]
    /\ UNCHANGED <<now, config, state, is_active, worker_pc, alert_data,
                   accept_times, prev_accept,
                   handed, callback_index, executed, first_failed,
                   notDelivery>>

\* the steps of trigger_alert that end in the logged put
TriggerContinue(t) ==
    \/ TriggerAlert_Reject(t)
    \/ TriggerAlert_Pass(t)
    \/ TriggerAlert_Stamp(t)
    \/ TriggerAlert_Count(t)
    \/ TriggerAlert_PutLogged(t)

\* alert_data = self._alert_queue.get(timeout=1.0) ; self._deliver_alert(alert_data)
\* is entered : Queue.get returns the oldest entry
Worker_GetLogged_newestFirst ==
    /\ worker_pc = "get"
    /\ alert_queue # <<>>
    /\ alert_data' = alert_queue[Len(alert_queue)]
    /\ alert_queue' = SubSeq(alert_queue, 1, Len(alert_queue) - 1)
    /\ handed' = Append(handed, queued_ids[Len(queued_ids)])
    /\ queued_ids' = SubSeq(queued_ids, 1, Len(queued_ids) - 1)
    /\ executed' = <<>>
    /\ worker_pc' = "deliver"
    /\ UNCHANGED <<now, config, state, is_active, lock, pc, history,
                   callback_index, first_failed,
                   notDelivery>>
Worker_GetLogged ==
    /\ worker_pc = "get"
    /\ alert_queue # <<>>
    /\ alert_data' = Head(alert_queue)
    /\ alert_queue' = Tail(alert_queue)
    /\ handed' = Append(handed, Head(queued_ids))
    /\ queued_ids' = Tail(queued_ids)
    /\ executed' = <<>>
    /\ worker_pc' = "deliver"
    /\ UNCHANGED <<now, config, state, is_active, lock, pc, history,
                   callback_index, first_failed,
                   notDelivery>>

\* the alert whose delivery is under way
Delivering == handed[Len(handed)]
\* an exception was raised while delivering the alert under way
NoteFailure == IF first_failed = 0 THEN Delivering ELSE first_failed

\* _deliver_alert : the AUDIO, VISUAL, HAPTIC and LOG channels return;
\* callback_channel says whether AlertChannel.CALLBACK is in the channels
Deliver_Channels(callback_channel) ==
    /\ worker_pc = "deliver"
    /\ IF callback_channel /\ NumCallbacks > 0
       THEN /\ worker_pc' = "callbacks"
            /\ callback_index' = 1
            /\ UNCHANGED alert_data
       ELSE /\ worker_pc' = "while"
            /\ alert_data' = <<>>
            /\ UNCHANGED callback_index
    /\ UNCHANGED <<now, config, state, is_active, lock, alert_queue, pc, history,
                   queued_ids, handed, executed, first_failed,
                   notDelivery>>

\* _deliver_alert : a channel raises; nothing in _deliver_alert catches it, so
\* the callbacks are skipped and the worker's `except Exception` logs it
Deliver_ChannelRaised ==
    /\ worker_pc = "deliver"
    /\ worker_pc' = "while"
    /\ alert_data' = <<>>
    /\ first_failed' = NoteFailure
    /\ UNCHANGED <<now, config, state, is_active, lock, alert_queue, pc, history,
                   queued_ids, handed, callback_index, executed,
                   notDelivery>>

\* _execute_callbacks : one turn of `for callback in self._callbacks`, the
\* callback returning or raising (the exception is caught inside the loop)
Deliver_Callback_stopAtFirst(raises) ==
    /\ worker_pc = "callbacks"
    /\ executed' = Append(executed, [callback |-> callback_index, raised |-> raises])
    /\ first_failed' = IF raises THEN NoteFailure ELSE first_failed
    /\ IF callback_index < NumCallbacks /\ ~raises
       THEN /\ callback_index' = callback_index + 1
            /\ UNCHANGED <<worker_pc, alert_data>>
       ELSE /\ callback_index' = 0
            /\ worker_pc' = "while"
            /\ alert_data' = <<>>
    /\ UNCHANGED <<now, config, state, is_active, lock, alert_queue, pc, history,
                   queued_ids, handed,
                   notDelivery>>
Deliver_Callback(raises) ==
    /\ worker_pc = "callbacks"
    /\ executed' = Append(executed, [callback |-> callback_index, raised |-> raises])
    /\ first_failed' = IF raises THEN NoteFailure ELSE first_failed
    /\ IF callback_index < NumCallbacks
       THEN /\ callback_index' = callback_index + 1
            /\ UNCHANGED <<worker_pc, alert_data>>
       ELSE /\ callback_index' = 0
            /\ worker_pc' = "while"
            /\ alert_data' = <<>>
    /\ UNCHANGED <<now, config, state, is_active, lock, alert_queue, pc, history,
                   queued_ids, handed,
                   notDelivery>>

\* the worker thread, its delivery taken apart
DeliveryStep ==
    \/ Worker_While
    \/ Worker_GetLogged
    \/ Worker_GetTimeout
    \/ \E callback_channel \in BOOLEAN : Deliver_Channels(callback_channel)
    \/ Deliver_ChannelRaised
    \/ \E raises \in BOOLEAN : Deliver_Callback(raises)

DeliveryNext ==
    \/ Tick
    \/ \E t \in Callers : TriggerAlert_Call(t)
    \/ \E t \in Callers : TriggerContinue(t)
    \/ \E t \in Callers : Shutdown(t)
    \/ DeliveryStep

(* ====================================================================== *)
(*                 CircuitBreaker  (utils/alert_system.py)                *)
(* ====================================================================== *)
\* CircuitBreaker(failure_threshold, timeout), the timeout in clock ticks
FailureThreshold == 2
BreakerTimeout == 2
\* how far the clock of the breaker runs
MaxBreakerTicks == 5
\* time.time() when the breaker is made: later than any timeout after 1970
BreakerStart == BreakerTimeout + 1

\* the outcomes of the wrapped function
Outcomes == {"returns", "raises"}

NoBreakerCall ==
    [op |-> "new", state |-> "CLOSED", failures |-> 0, waited |-> 0,
     invoked |-> FALSE, result |-> "none"]

\* CircuitBreaker.__init__
BreakerInit ==
    /\ breaker_now = BreakerStart
    /\ breaker_state = "CLOSED"
    /\ failures = 0
    /\ last_failure_time = 0
    /\ consecutive = 0
    /\ breaker_call = NoBreakerCall

\* the clock advances
Breaker_Tick ==
    /\ breaker_now < BreakerStart + MaxBreakerTicks
    /\ breaker_now' = breaker_now + 1
    /\ UNCHANGED <<breaker_state, failures, last_failure_time, consecutive,
                   breaker_call, notBreaker>>

\* time.time() - self.last_failure_time > self.timeout
TimedOut_always(t, last) == TRUE
TimedOut(t, last) == t - last > BreakerTimeout

\* the state in which the wrapped function runs: an OPEN breaker whose
\* timeout has passed becomes HALF_OPEN
StateForCall == IF breaker_state = "OPEN" THEN "HALF_OPEN" ELSE breaker_state

\* call(func) : the wrapped function is func, which returns or raises
Breaker_Call(outcome) ==
    LET Made(invoked, result) ==
            [op |-> "call", state |-> breaker_state, failures |-> failures,
             waited |-> breaker_now - last_failure_time,
             invoked |-> invoked, result |-> result]
    IN  IF breaker_state = "OPEN" /\ ~TimedOut(breaker_now, last_failure_time)
        THEN \* raise Exception("Circuit breaker is OPEN")
             /\ breaker_call' = Made(FALSE, "rejected")
             /\ UNCHANGED <<breaker_now, breaker_state, failures, last_failure_time,
                            consecutive, notBreaker>>
        ELSE IF outcome = "returns"
        THEN /\ breaker_state' =
                    IF StateForCall = "HALF_OPEN" THEN "CLOSED" ELSE breaker_state
             /\ failures' = IF StateForCall = "HALF_OPEN" THEN 0 ELSE failures
             /\ consecutive' = 0
             /\ breaker_call' = Made(TRUE, "returned")
             /\ UNCHANGED <<breaker_now, last_failure_time, notBreaker>>
        ELSE /\ failures' = failures + 1
             /\ last_failure_time' = breaker_now
             /\ breaker_state' =
                    IF failures + 1 >= FailureThreshold THEN "OPEN" ELSE StateForCall
             /\ consecutive' = consecutive + 1
             /\ breaker_call' = Made(TRUE, "raised")
             /\ UNCHANGED <<breaker_now, notBreaker>>

\* reset()
Breaker_Reset ==
    /\ breaker_state' = "CLOSED"
    /\ failures' = 0
    /\ consecutive' = 0
    /\ breaker_call' = [NoBreakerCall EXCEPT !.op = "reset"]
    /\ UNCHANGED <<breaker_now, last_failure_time, notBreaker>>

BreakerNext ==
    \/ Breaker_Tick
    \/ \E outcome \in Outcomes : Breaker_Call(outcome)
    \/ Breaker_Reset

(* ====================================================================== *)
(*   AdvancedAlertSystem : queue processing and connectivity changes      *)
(* ====================================================================== *)
\* alerts that trigger_alert puts on the queue
MaxAlerts == 2

\* AdvancedAlertSystem.__init__ : online, nothing queued or buffered, the
\* processing thread started
OfflineInit ==
    /\ adv_queue = <<>>
    /\ is_online = TRUE
    /\ offline_buffer = <<>>
    /\ proc_pc = "get"
    /\ proc_alert = 0
    /\ conn_pc = "idle"
    /\ conn_index = 0
    /\ triggered = 0
    /\ sent = <<>>

\* trigger_alert : self.alert_queue.put((priority, time.time(), alert)); the
\* alerts have one priority, so that the queue hands them out oldest first
Adv_TriggerAlert ==
    /\ triggered < MaxAlerts
    /\ triggered' = triggered + 1
    /\ adv_queue' = Append(adv_queue, triggered + 1)
    /\ UNCHANGED <<is_online, offline_buffer, proc_pc, proc_alert, conn_pc,
                   conn_index, sent, notOffline>>

\* _process_alert_queue : priority, timestamp, alert = self.alert_queue.get(timeout=1.0)
\* (queue.Empty leaves the thread where it is)
Process_Get ==
    /\ proc_pc = "get"
    /\ adv_queue # <<>>
    /\ proc_alert' = Head(adv_queue)
    /\ adv_queue' = Tail(adv_queue)
    /\ proc_pc' = "check"
    /\ UNCHANGED <<is_online, offline_buffer, conn_pc, conn_index, triggered, sent,
                   notOffline>>

\* if not self.is_online:
Process_Check ==
    /\ proc_pc = "check"
    /\ proc_pc' = IF ~is_online THEN "append" ELSE "send"
    /\ UNCHANGED <<adv_queue, is_online, offline_buffer, proc_alert, conn_pc,
                   conn_index, triggered, sent, notOffline>>

\* self.offline_buffer.append(alert) ; continue
Process_Append ==
    /\ proc_pc = "append"
    /\ offline_buffer' = Append(offline_buffer, proc_alert)
    /\ proc_alert' = 0
    /\ proc_pc' = "get"
    /\ UNCHANGED <<adv_queue, is_online, conn_pc, conn_index, triggered, sent,
                   notOffline>>

\* the alert is routed to send_to_authorities, send_to_emergency_contacts and
\* send_to_webhooks, each of which catches its own exceptions
Process_Send ==
    /\ proc_pc = "send"
    /\ sent' = Append(sent, proc_alert)
    /\ proc_alert' = 0
    /\ proc_pc' = "get"
    /\ UNCHANGED <<adv_queue, is_online, offline_buffer, conn_pc, conn_index,
                   triggered, notOffline>>

\* set_online_status(online) : self.is_online = is_online
SetOnlineStatus_Assign(online) ==
    /\ conn_pc = "idle"
    /\ is_online' = online
    /\ conn_pc' = "test"
    /\ UNCHANGED <<adv_queue, offline_buffer, proc_pc, proc_alert, conn_index,
                   triggered, sent, notOffline>>

\* if is_online and self.offline_buffer: (is_online is the argument, which
\* the assignment has just stored)
SetOnlineStatus_Test ==
    /\ conn_pc = "test"
    /\ IF is_online /\ offline_buffer # <<>>
       THEN conn_pc' = "loop" /\ conn_index' = 1
       ELSE conn_pc' = "idle" /\ UNCHANGED conn_index
    /\ UNCHANGED <<adv_queue, is_online, offline_buffer, proc_pc, proc_alert,
                   triggered, sent, notOffline>>

\* for alert in self.offline_buffer: self.alert_queue.put(...) -- the list
\* iterator goes by position and sees what is appended meanwhile
SetOnlineStatus_Loop ==
    /\ conn_pc = "loop"
    /\ IF conn_index <= Len(offline_buffer)
       THEN /\ adv_queue' = Append(adv_queue, offline_buffer[conn_index])
            /\ conn_index' = conn_index + 1
            /\ UNCHANGED conn_pc
       ELSE /\ conn_pc' = "clear"
            /\ UNCHANGED <<adv_queue, conn_index>>
    /\ UNCHANGED <<is_online, offline_buffer, proc_pc, proc_alert, triggered, sent,
                   notOffline>>

\* self.offline_buffer.clear()
SetOnlineStatus_Clear ==
    /\ conn_pc = "clear"
    /\ offline_buffer' = <<>>
    /\ conn_index' = 0
    /\ conn_pc' = "idle"
    /\ UNCHANGED <<adv_queue, is_online, proc_pc, proc_alert, triggered, sent,
                   notOffline>>

\* the processing thread
ProcessStep == Process_Get \/ Process_Check \/ Process_Append \/ Process_Send
\* the thread that reports connectivity
ConnectivityStep ==
    \/ \E online \in BOOLEAN : SetOnlineStatus_Assign(online)
    \/ SetOnlineStatus_Test
    \/ SetOnlineStatus_Loop
    \/ SetOnlineStatus_Clear

OfflineNext == Adv_TriggerAlert \/ ProcessStep \/ ConnectivityStep

(* ====================================================================== *)
(*                            specifications                              *)
(* ====================================================================== *)
Init ==
    /\ AlertInit /\ AdvInit /\ EyeInit(ScaledTuning) /\ VehicleInit /\ FusionInit
    /\ EarInit /\ DeliveryInit /\ BreakerInit /\ OfflineInit

Next ==
    \/ Tick
    \/ \E t \in Callers : CallerCall(t)
    \/ \E t \in Callers : CallerContinue(t)
    \/ WorkerStep

\* AlertSystem under any scheduling
Spec == Init /\ [][Next]_vars

\* AlertConfig() : the defaults
DefaultConfig ==
    [enable_escalation |-> TRUE,
     escalation_threshold |-> MaxThreshold,
     min_interval_sec |-> MinIntervalTicks]

\* AdvancedAlertSystem.create_alert called from one thread
DedupInit == Init /\ config = DefaultConfig
DedupSpec == DedupInit /\ [][AdvNext]_vars

\* AlertSystem when every caller that holds the lock keeps running; nothing
\* is assumed of the worker, whose delivery may never return
CallersFairSpec ==
    Init /\ [][Next]_vars /\ WF_vars(\E t \in Callers : CallerContinue(t))

\* AlertSystem when the worker thread keeps running and each delivery returns
WorkerFairSpec == Init /\ [][Next]_vars /\ WF_vars(WorkerStep)

\* one session of a detector, on any sequence of frames, scaled constants
TrackerInit == Init /\ config = DefaultConfig
TrackerSpec == TrackerInit /\ [][TrackerNext]_vars

\* DrowsinessDetector with config.py as shipped, on the end-to-end run
ScenarioInit ==
    /\ AlertInit /\ config = DefaultConfig /\ AdvInit /\ EyeInit(DefaultTuning)
    /\ VehicleInit /\ FusionInit /\ EarInit /\ DeliveryInit /\ BreakerInit
    /\ OfflineInit
ScenarioSpec == ScenarioInit /\ [][ScenarioFrame]_vars

\* one EARSmoother
SmootherInit == Init /\ config = DefaultConfig
SmootherSpec == SmootherInit /\ [][SmootherNext]_vars

\* one VehicleDynamicsAnalyzer used on its own
VehicleSpecInit == Init /\ config = DefaultConfig
VehicleSpec == VehicleSpecInit /\ [][VehicleNext]_vars

\* one MultiModalDetector with its analyzer
FusionSpecInit == Init /\ config = DefaultConfig
FusionSpec == FusionSpecInit /\ [][FusionNext]_vars

\* one EARCalculator
EarSpecInit == Init /\ config = DefaultConfig
EarSpec == EarSpecInit /\ [][EarNext]_vars

\* the processing thread of AdvancedAlertSystem against one thread calling
\* trigger_alert and set_online_status
OfflineSpecInit == Init /\ config = DefaultConfig
OfflineSpec == OfflineSpecInit /\ [][OfflineNext]_vars

\* one CircuitBreaker called from one thread
BreakerSpecInit == Init /\ config = DefaultConfig
BreakerSpec == BreakerSpecInit /\ [][BreakerNext]_vars

\* AlertSystem with its delivery taken apart, reset() never called, under any
\* scheduling; and when the worker thread keeps running
DeliverySpecInit == Init /\ config = DefaultConfig
DeliverySpec == DeliverySpecInit /\ [][DeliveryNext]_vars
DeliveryFairSpec == DeliverySpecInit /\ [][DeliveryNext]_vars /\ WF_vars(DeliveryStep)

(* ====================================================================== *)
(*                               properties                               *)
(* ====================================================================== *)
\* no caller is inside trigger_alert, reset or get_statistics
Quiescent == \A t \in Callers : pc[t] = "idle"
\* no reset() is between its first and its last assignment
NoResetInProgress == \A t \in Callers : pc[t] \notin {"r_last", "r_count", "r_esc"}
Range(f) == {f[i] : i \in DOMAIN f}
\* the alerts on the queue, followed by the one being delivered (if any)
Dispatched == IF alert_data = <<>> THEN alert_queue ELSE <<alert_data>> \o alert_queue

\* C1: with no reset() in between, any two accepted alerts are at least
\* min_interval_sec apart: a call made sooner after the last accepted one is
\* rejected, so two calls within min_interval_sec yield one accepted alert.
C1_ThrottleInterval ==
    \A i \in 1..(Len(accept_times) - 1) :
        accept_times[i + 1] - accept_times[i] >= config.min_interval_sec
C1_Witness ==
    /\ Len(accept_times) >= 2
    /\ accept_times[2] - accept_times[1] = config.min_interval_sec
    /\ last_ret = "throttled"

\* C2: with escalation enabled, escalation_level = floor(alert_count /
\* escalation_threshold) whenever no reset() is half done; a step changes the
\* level only by +1 (on an accepted alert) or back to 0 (in reset()).
C2_EscalationLevel ==
    /\ [](config.enable_escalation /\ NoResetInProgress =>
            escalation_level = alert_count \div config.escalation_threshold)
    /\ [][\/ escalation_level' = escalation_level
          \/ /\ escalation_level' = escalation_level + 1
             /\ alert_count' = alert_count + 1
             /\ alert_count' % config.escalation_threshold = 0
          \/ /\ escalation_level' = 0
             /\ \E t \in Callers : pc[t] = "r_esc"]_vars
C2_Witness ==
    /\ config.enable_escalation
    /\ config.escalation_threshold = 2
    /\ alert_count = 3
    /\ escalation_level = 1
    /\ last_ret = "throttled"
    /\ Quiescent

\* C3: a rejected (throttled) trigger_alert call leaves last_alert_time,
\* alert_count, escalation_level and the delivery queue as they were.
C3_RejectChangesNothing ==
    [][(\E t \in Callers : pc[t] = "t_check" /\ pc'[t] = "idle") =>
          UNCHANGED <<last_alert_time, alert_count, escalation_level, alert_queue>>]_vars
C3_Witness ==
    /\ last_ret = "throttled"
    /\ alert_count >= 1
    /\ alert_queue # <<>>
    /\ Quiescent

\* the three fields agree: all cleared, or all set by accepted alerts
Consistent ==
    /\ alert_count = 0 <=> last_alert_time = None
    /\ alert_count = 0 => escalation_level = 0

\* C4: reset() clears the three fields as one step: a trigger_alert at its
\* throttle check and a get_statistics at its read never see some of them
\* cleared and others not; reset() ends with all three cleared; and a
\* trigger_alert that finds last_alert_time cleared is accepted.
C4_ResetAtomic ==
    /\ []((Quiescent \/ \E t \in Callers : pc[t] \in {"t_check", "s_read"}) => Consistent)
    /\ [][\A t \in Callers :
            pc[t] = "r_esc" /\ pc'[t] = "idle" =>
                last_alert_time' = None /\ alert_count' = 0 /\ escalation_level' = 0]_vars
    /\ [][\A t \in Callers :
            pc[t] = "t_check" /\ last_alert_time = None /\ pc'[t] # "t_check" =>
                pc'[t] = "t_update"]_vars
C4_Witness ==
    \E t \in Callers :
        /\ pc[t] = "t_update"
        /\ alert_count = 0
        /\ prev_accept # None
        /\ now - prev_accept < config.min_interval_sec

C6_LockNotHeldForDelivery ==
    /\ [](lock # WorkerId)
    /\ (lock # Free) ~> (lock = Free)
C6_Witness ==
    /\ worker_pc = "deliver"
    /\ last_ret = "accepted"
    /\ alert_queue # <<>>
    /\ alert_queue[Len(alert_queue)].n > alert_data.n
    /\ Quiescent

\* C7: the number of queued-but-undelivered alerts never exceeds a fixed
\* capacity.
C7_QueueBounded == Len(alert_queue) <= CandidateCapacity

\* C8: the remembered hashes are those of the DedupWindow most recently
\* accepted alerts, never more than DedupWindow of them, and an alert is
\* suppressed as a repeat only when its hash is in that window.
C8_DedupWindow ==
    /\ Cardinality(alert_hashes) <= DedupWindow
    /\ alert_hashes = Range(recent_alerts)
    /\ adv_result = "hash" => adv_alert \in Range(recent_alerts)

\* C9 as stated: the n-th alert accepted since the last reset is queued with
\* escalation_level = floor(n / escalation_threshold).
C9_QueuedLevel_AsStated ==
    \A i \in 1..Len(Dispatched) :
        Dispatched[i].escalation_level = Dispatched[i].n \div config.escalation_threshold

\* C9: the n-th alert accepted since the last reset is queued with
\* escalation_level = floor(n / escalation_threshold) when escalation is
\* enabled and with level 0 when it is disabled; the levels of alerts
\* accepted one after the other with no reset between never decrease.
C9_QueuedLevel ==
    /\ \A i \in 1..Len(Dispatched) :
          Dispatched[i].escalation_level =
              IF config.enable_escalation
              THEN Dispatched[i].n \div config.escalation_threshold
              ELSE 0
    /\ \A i \in 1..(Len(Dispatched) - 1) :
          Dispatched[i + 1].n = Dispatched[i].n + 1 =>
              Dispatched[i + 1].escalation_level >= Dispatched[i].escalation_level
C9_Witness ==
    /\ config.enable_escalation
    /\ config.escalation_threshold = 2
    /\ Len(alert_queue) >= 2
    /\ alert_queue[1].n = 1 /\ alert_queue[1].escalation_level = 0
    /\ alert_queue[2].n = 2 /\ alert_queue[2].escalation_level = 1

\* C10: once shutdown() has cleared _is_active the worker loop ends, whether
\* or not alerts are queued; from then on the worker takes nothing from the
\* queue, so what is queued stays undelivered.
C10_WorkerEnds ==
    /\ (~is_active) ~> (worker_pc = "exited")
    /\ [][worker_pc = "exited" =>
            /\ worker_pc' = "exited"
            /\ alert_data' = alert_data
            /\ Len(alert_queue') >= Len(alert_queue)]_vars
C10_Witness ==
    /\ worker_pc = "exited"
    /\ alert_queue # <<>>

(* ------------------ eye-closure tracking : helpers -------------------- *)
\* equality of two exact fractions
RatEq(a, b) == a.num * b.den = b.num * a.den
Min(a, b) == IF a < b THEN a ELSE b
Reverse(s) == [i \in 1..Len(s) |-> s[Len(s) + 1 - i]]
\* the frames a detector needs to leave calibration
CalibrationLength(d) ==
    IF d = D THEN tuning.CALIBRATION_FRAMES ELSE tuning.CALIBRATION_DURATION
\* the smoothed EAR of the i-th frame of a run of raw EARs starting with an
\* empty smoothing buffer
SmoothedAt(raws, i) ==
    LET first == IF i > tuning.SMOOTHING_WINDOW THEN i - tuning.SMOOTHING_WINDOW + 1 ELSE 1
    IN  SeqSum(SubSeq(raws, first, i)) \div (i - first + 1)
\* the threshold DrowsinessDetector would reach had the calibration frames
\* come with these raw EARs
ReplayThreshold(raws) ==
    [num |-> 4 * SeqSum([i \in 1..Len(raws) |-> SmoothedAt(raws, i)]),
     den |-> 5 * Len(raws)]
\* how many closed frames end the sequence without a break
RECURSIVE TrailingRun(_)
TrailingRun(log) ==
    IF log = <<>> \/ ~log[Len(log)] THEN 0
    ELSE 1 + TrailingRun(SubSeq(log, 1, Len(log) - 1))
PerclosExceeds == perclos.num * 10 > 3 * perclos.den

\* C11: calibration is one-way.  Once is_calibrating is false for a detector
\* it stays false on every later frame, and the threshold computed at the
\* transition is never written again.
C11_CalibrationOneWay ==
    [][\A d \in Detectors :
          ~is_calibrating[d] =>
              /\ ~is_calibrating'[d]
              /\ ear_threshold'[d] = ear_threshold[d]]_vars
\* DrowsinessDetector went on to process frames after calibration and raised
\* an alert with a calibrated threshold
C11_Witness ==
    /\ ~is_calibrating[D]
    /\ ear_threshold[D] # EAR_THRESHOLD
    /\ Len(closed_log) >= 2
    /\ drowsy

C13_NoAlertWhileCalibrating ==
    [][is_calibrating[D] =>
          /\ ~drowsy'
          /\ alarm_thread' = "None"
          /\ frame_count' = 0
          /\ closed_history' = <<>>
          /\ last_reason' = "NONE"]_vars
\* calibration has just completed on frames in which the eyes looked closed
C13_Witness ==
    /\ ~is_calibrating[D]
    /\ closed_log = <<>>
    /\ \A i \in DOMAIN samples_log[D] : samples_log[D][i] * 4 < EarUnits

\* C14: after calibration, frame_count is the length of the current unbroken
\* run of closed frames: one more after a closed frame, 0 after an open one.
C14_ConsecutiveClosed ==
    /\ frame_count = TrailingRun(closed_log)
    /\ is_calibrating[D] => closed_log = <<>>
\* a run of two or more closed frames that began after an open frame
C14_Witness ==
    /\ frame_count >= 2
    /\ Len(closed_log) > frame_count

\* C15: closed_history holds the flags of the last min(frames, PERCLOS_WINDOW)
\* detection frames in their order, so never more than PERCLOS_WINDOW of them,
\* and perclos is the number of closed flags over the current length, a value
\* between 0 and 1.
C15_ClosureHistory ==
    LET n == Len(closed_log)
        k == Min(n, tuning.PERCLOS_WINDOW)
    IN  /\ Len(closed_history) <= tuning.PERCLOS_WINDOW
        /\ closed_history = [i \in 1..k |-> IF closed_log[n - k + i] THEN 1 ELSE 0]
        /\ n > 0 =>
              /\ perclos.num = Cardinality({i \in DOMAIN closed_history :
                                               closed_history[i] = 1})
              /\ perclos.den = Len(closed_history)
              /\ 0 <= perclos.num /\ perclos.num <= perclos.den
\* the window is full, its oldest flag has been pushed out, and it holds
\* closed and open frames
C15_Witness ==
    /\ Len(closed_log) > tuning.PERCLOS_WINDOW
    /\ closed_log[1] # closed_log[Len(closed_log) - tuning.PERCLOS_WINDOW + 1]
    /\ 0 < perclos.num
    /\ perclos.num < perclos.den

\* C16: a detection frame alerts exactly when frame_count >= CONSEC_FRAMES or
\* perclos > PERCLOS_THRESHOLD; the reason is micro-sleep when the consecutive
\* condition holds and fatigue when only the PERCLOS one does; when neither
\* holds there is no alert and the drowsy flag is false.
C16_AlertCondition ==
    LET micro == frame_count >= tuning.CONSEC_FRAMES
    IN  /\ last_reason # "NONE" <=> (micro \/ PerclosExceeds)
        /\ micro => last_reason = "MICRO-SLEEP!"
        /\ (~micro /\ PerclosExceeds) => last_reason = "FATIGUE DETECTED!"
        /\ drowsy <=> (micro \/ PerclosExceeds)
\* an alert was raised, and now that the closed frames have left the window a
\* frame raises none
C16_Witness ==
    /\ Len(closed_log) > tuning.PERCLOS_WINDOW
    /\ \E i \in DOMAIN closed_log : closed_log[i]
    /\ alarm_thread # "None"
    /\ last_reason = "NONE"
    /\ ~drowsy

\* C17: on the end-to-end run (config.py as shipped, 90 frames of EAR 0.30,
\* then 25 frames of EAR 0.15) no alert of any kind is raised while
\* frame_count is below CONSEC_FRAMES, the alert raised once it has reached
\* CONSEC_FRAMES is the micro-sleep one, and that happens within the 25 frames.
C17_EndToEnd ==
    /\ ~is_calibrating[D] =>
          RatEq(ear_threshold[D], [num |-> 24 * EarUnits, den |-> 100])
    /\ frame_count < tuning.CONSEC_FRAMES => (last_reason = "NONE" /\ ~drowsy)
    /\ frame_count >= tuning.CONSEC_FRAMES => last_reason = "MICRO-SLEEP!"
    /\ FramesProcessed = tuning.CALIBRATION_FRAMES + 25 =>
          frame_count >= tuning.CONSEC_FRAMES

\* C18: a frame of DrowsinessDetector with no face, or with eye geometry that
\* cannot be computed, is skipped: ear_history, the calibration counter and
\* samples, frame_count and closed_history are as they were before it.
C18_FrameSkipped ==
    [][(last_frame'.detector = D /\ last_frame'.kind \in {"no_face", "degenerate"}) =>
          UNCHANGED <<ear_history, calibration_frames, calibration_data,
                      frame_count, closed_history>>]_vars

\* C19: in every state after calibration the calibration sample buffer of
\* the detector is empty.
C19_BufferDiscarded ==
    /\ ~is_calibrating[D] => calibration_data = <<>>
    /\ ~is_calibrating[E] => calibration_buffer = <<>>

\* C20: after n calls of add() on an EARSmoother with window N the buffer
\* holds the last min(n, N) arguments in their order, and the value returned
\* by the last call is their arithmetic mean.
C20_SmootherWindow ==
    LET n == Len(adds)
        k == Min(n, window_size)
        last == SubSeq(adds, n - k + 1, n)
    IN  /\ buffer = last
        /\ n > 0 => /\ smoothed.den = k
                    /\ smoothed.num = SeqSum(last)
\* more values were added than the window holds, and the value pushed out
\* differs from the values kept
C20_Witness ==
    /\ window_size >= 2
    /\ Len(adds) > window_size
    /\ adds[1] # adds[Len(adds)]
    /\ \E i \in DOMAIN buffer : buffer[i] # buffer[1]

\* C21: is_ready of an EARSmoother with window N is true exactly when the
\* buffer holds at least ceil(N / 2) samples, so it is false for an empty
\* buffer (a smoother just created or just reset).
C21_ReadyAtHalfWindow ==
    /\ IsReady(buffer, window_size) <=> Len(buffer) >= (window_size + 1) \div 2
    /\ buffer = <<>> => ~IsReady(buffer, window_size)

(* -------------------- multi-modal fusion : helpers -------------------- *)
\* the FusedDetection of the most recent fusion
Fused == last_fusion[1]
\* how many of the three arguments of the most recent analyzer call were None
Missing ==
    (IF vd_call.steering.given THEN 0 ELSE 1) + (IF vd_call.lane.given THEN 0 ELSE 1)
    + (IF vd_call.speed.given THEN 0 ELSE 1)
\* the combined scores 0, 1/ScoreSteps, ..., 1 are compared pairwise
ScoreSteps == 20

\* C22: under the weighted strategy, when one modality's score is exactly 0
\* and the other is positive the combined score is the positive score
\* itself; when both are positive it is 0.6 * visual + 0.4 * vehicle.
C22_WeightedFallback ==
    (last_fusion # Absent /\ fusion_strategy = "weighted") =>
        LET v == Fused.visual_score
            h == Fused.vehicle_score
            c == Fused.combined_score
        IN  /\ (v = 0 /\ h > 0) => c.num * ScoreUnits = h * c.den
            /\ (h = 0 /\ v > 0) => c.num * ScoreUnits = v * c.den
            /\ (v > 0 /\ h > 0) => c.num * 10 * ScoreUnits = (6 * v + 4 * h) * c.den
\* a weighted fusion of a silent visual event with telemetry that scores
\* above zero
C22_Witness ==
    /\ last_fusion # Absent
    /\ fusion_strategy = "weighted"
    /\ Fused.visual_event # Absent
    /\ Fused.visual_score = 0
    /\ Fused.vehicle_score > 0
    /\ Fused.combined_score = Frac(Fused.vehicle_score, ScoreUnits)

\* C23 (state part): a fuse_detections call with exactly one input absent
\* returns a FusedDetection, which is the new last fusion and scores the
\* absent modality 0; a call with both absent returns None.
C23_Returned ==
    fuse_call.op = "fuse_detections" =>
        LET ve == fuse_call.visual_event
            vm == fuse_call.vehicle_metrics
        IN  /\ (ve = Absent /\ vm = Absent) => fuse_call.ret = Absent
            /\ ((ve = Absent) # (vm = Absent)) =>
                   /\ fuse_call.ret # Absent
                   /\ fuse_call.ret = last_fusion
                   /\ ve = Absent => fuse_call.ret[1].visual_score = 0
                   /\ vm = Absent => fuse_call.ret[1].vehicle_score = 0
\* C23 (step part): a fuse_detections call with both inputs absent leaves
\* fusion_count and the last fusion as they were.
C23_NothingFused ==
    (/\ fuse_call'.op = "fuse_detections"
     /\ fuse_call'.visual_event = Absent
     /\ fuse_call'.vehicle_metrics = Absent) => UNCHANGED <<fusion_count, last_fusion>>
\* C23: fuse_detections degrades gracefully on absent input: one input
\* absent gives a FusedDetection with score 0 for the absent modality, both
\* absent give None and change neither fusion_count nor the last fusion.
C23_GracefulAbsence == []C23_Returned /\ [][C23_NothingFused]_vars
\* after a fusion without telemetry, a call without any input was made
C23_Witness ==
    /\ fuse_call.op = "fuse_detections"
    /\ fuse_call.visual_event = Absent
    /\ fuse_call.vehicle_metrics = Absent
    /\ fusion_count = 1
    /\ last_fusion # Absent
    /\ Fused.vehicle_metrics = Absent
    /\ Fused.vehicle_score = 0

\* the ordered rules of the impairment classification; factor is the
\* multiple of the combined score reported as confidence, in tenths
C24_Rule(ve, vm, c) ==
    LET pc100 == IF ve = Absent THEN 0 ELSE ve[1].perclos
        visual_alert == ve # Absent /\ ve[1].alert_level # "NONE"
        entropy == IF vm = Absent THEN 0 ELSE vm[1].steering_entropy
        risk_score == IF vm = Absent THEN 0 ELSE vm[1].risk_score
        not_normal == vm # Absent /\ vm[1].risk_level # "NORMAL"
    IN  IF FracLt(c, Frac(3, 10)) THEN [type |-> "none", factor |-> 0]
        ELSE IF pc100 > 15
        THEN IF not_normal THEN [type |-> "combined", factor |-> 10]
             ELSE [type |-> "drowsiness", factor |-> 9]
        ELSE IF 10 * entropy > 5 * EntropyUnits /\ ~visual_alert
        THEN [type |-> "intoxication", factor |-> 7]
        ELSE IF pc100 > 10 /\ 10 * risk_score > 4 * ScoreUnits
        THEN [type |-> "fatigue", factor |-> 8]
        ELSE IF FracLt(Frac(5, 10), c) THEN [type |-> "combined", factor |-> 6]
        ELSE [type |-> "none", factor |-> 0]
\* C24: the impairment type and confidence of every fusion follow the
\* ordered rules, first match wins: combined < 0.3 NONE; PERCLOS > 0.15
\* COMBINED if the vehicle risk level is not NORMAL, else DROWSINESS (0.9);
\* steering entropy > 0.5 without visual alert INTOXICATION (0.7);
\* PERCLOS > 0.10 with risk_score > 0.4 FATIGUE (0.8); combined > 0.5
\* COMBINED (0.6); else NONE.
C24_ClassificationOrder ==
    last_fusion # Absent =>
        LET rule == C24_Rule(Fused.visual_event, Fused.vehicle_metrics,
                             Fused.combined_score)
        IN  /\ Fused.impairment_type = rule.type
            /\ Fused.confidence = Scale(Fused.combined_score, rule.factor, 10)
\* a fusion in which both the PERCLOS rule and the steering-entropy rule
\* match, and the earlier one decided
C24_Witness ==
    /\ last_fusion # Absent
    /\ Fused.visual_event # Absent
    /\ Fused.vehicle_metrics # Absent
    /\ ~FracLt(Fused.combined_score, Frac(3, 10))
    /\ Fused.visual_event[1].perclos > 15
    /\ Fused.visual_event[1].alert_level = "NONE"
    /\ Fused.vehicle_metrics[1].steering_entropy > 500
    /\ Fused.impairment_type = "combined"

\* the fused alert level as a function of the combined score and the levels
\* the two modalities report
C25_Level(c, ve, vm) ==
    IF \/ FracLe(Frac(8, 10), c)
       \/ /\ ve # Absent /\ ve[1].alert_level = "CRITICAL"
          /\ vm # Absent /\ vm[1].risk_level = "CRITICAL"
    THEN "CRITICAL"
    ELSE IF FracLe(Frac(6, 10), c) THEN "DANGER"
    ELSE IF FracLe(Frac(4, 10), c) THEN "WARNING"
    ELSE "NONE"
\* C25: every fusion has alert level CRITICAL if combined >= 0.8 or both
\* modalities report CRITICAL, else DANGER if combined >= 0.6, else WARNING
\* if combined >= 0.4, else NONE; and for the inputs of the fusion the level
\* does not decrease when the combined score grows (checked on each pair of
\* neighbours of a grid of scores, which gives every pair of the grid).
C25_AlertLevel ==
    last_fusion # Absent =>
        LET ve == Fused.visual_event
            vm == Fused.vehicle_metrics
        IN  /\ Fused.alert_level = C25_Level(Fused.combined_score, ve, vm)
            /\ \A k \in 1..ScoreSteps :
                  AlertValue(DetermineAlertLevel(Frac(k - 1, ScoreSteps), ve, vm))
                      <= AlertValue(DetermineAlertLevel(Frac(k, ScoreSteps), ve, vm))
\* a fusion that is CRITICAL only because both modalities are
C25_Witness ==
    /\ last_fusion # Absent
    /\ FracLt(Fused.combined_score, Frac(8, 10))
    /\ Fused.alert_level = "CRITICAL"
    /\ Fused.visual_event[1].alert_level = "CRITICAL"
    /\ Fused.vehicle_metrics[1].risk_level = "CRITICAL"

\* C26: the risk level of every snapshot is CRITICAL iff entropy exceeds 1.5
\* times its threshold and a secondary metric exceeds its own; HIGH_RISK iff
\* not CRITICAL, entropy above threshold and a secondary metric above;
\* POSSIBLE_IMPAIRMENT iff entropy above threshold without a secondary
\* metric above, or entropy not above threshold and risk score > 0.6;
\* NORMAL otherwise.
C26_RiskLevel ==
    vd_call.op = "analyze" =>
        LET m == vd_call.ret[1]
            above == m.steering_entropy > thresholds.steering_entropy
            far_above == 2 * m.steering_entropy > 3 * thresholds.steering_entropy
            secondary == \/ m.speed_variability > thresholds.speed_var
                         \/ m.lane_deviation > thresholds.lane_dev
            critical == far_above /\ secondary
            high == ~critical /\ above /\ secondary
            possible == \/ above /\ ~secondary
                        \/ ~above /\ 10 * m.risk_score > 6 * ScoreUnits
        IN  /\ m.risk_level \in {"NORMAL", "POSSIBLE_IMPAIRMENT", "HIGH_RISK", "CRITICAL"}
            /\ m.risk_level = "CRITICAL" <=> critical
            /\ m.risk_level = "HIGH_RISK" <=> high
            /\ m.risk_level = "POSSIBLE_IMPAIRMENT" <=> possible
            /\ m.risk_level = "NORMAL" <=> ~(critical \/ high \/ possible)
\* a snapshot that is POSSIBLE_IMPAIRMENT through its risk score alone,
\* with only one of the secondary metrics above its threshold
C26_Witness ==
    /\ vd_call.op = "analyze"
    /\ vd_call.ret[1].risk_level = "POSSIBLE_IMPAIRMENT"
    /\ vd_call.ret[1].steering_entropy <= thresholds.steering_entropy
    /\ vd_call.ret[1].lane_deviation > thresholds.lane_dev
    /\ vd_call.ret[1].speed_variability > thresholds.speed_var

\* C27: the snapshot of a process_vehicle_data call is valid exactly when
\* fewer than 3 of its inputs were missing, one warning being raised per
\* missing input; the call returns None exactly when the snapshot is invalid
\* or the vehicle modality is disabled, and the snapshot otherwise.
C27_ValidSnapshot ==
    vd_call.op = "process_vehicle_data" =>
        /\ enable_vehicle =>
               /\ Len(last_metrics[1].warnings) = Missing
               /\ last_metrics[1].is_valid <=> Missing < 3
        /\ vd_call.ret = Absent <=> (~enable_vehicle \/ Missing = 3)
        /\ vd_call.ret # Absent => vd_call.ret = last_metrics
\* telemetry without any signal was processed by an enabled vehicle modality
C27_Witness ==
    /\ vd_call.op = "process_vehicle_data"
    /\ enable_vehicle
    /\ Missing = 3
    /\ last_metrics # Absent
    /\ ~last_metrics[1].is_valid
    /\ vd_call.ret = Absent

\* whether an argument of the most recent analyze() was supplied but
\* rejected by validation
C28_Failed(batch, min_value, max_value) ==
    batch.given /\ ~ValidateInput(batch.data, min_value, max_value)
\* C28: a batch that is supplied but invalid for one metric leaves the
\* analysis running: the failed metric is reported as zero, the other
\* metrics are computed, and the snapshot's warnings hold a warning for each
\* failed metric besides those for missing inputs.
C28_FailedMetricWarned ==
    vd_call.op = "analyze" =>
        LET m == vd_call.ret[1]
            failed == (IF C28_Failed(vd_call.steering, -540, 540) THEN 1 ELSE 0)
                      + (IF C28_Failed(vd_call.lane, -5 * LaneUnits, 5 * LaneUnits)
                         THEN 1 ELSE 0)
                      + (IF C28_Failed(vd_call.speed, 0, 300) THEN 1 ELSE 0)
        IN  /\ C28_Failed(vd_call.steering, -540, 540) => m.steering_entropy = 0
            /\ C28_Failed(vd_call.lane, -5 * LaneUnits, 5 * LaneUnits) =>
                   m.lane_deviation = 0
            /\ C28_Failed(vd_call.speed, 0, 300) => m.speed_variability = 0
            /\ vd_call.ret = last_metrics
            /\ Len(m.warnings) >= Missing + failed

\* C29: the speed variability of a snapshot is 0 for a speed batch that
\* fails validation and for one whose mean is below 5 km/h, and
\* std / mean * 100 for a valid batch with mean at least 5 km/h.
C29_SpeedVariability ==
    (vd_call.op = "analyze" /\ vd_call.speed.given) =>
        LET data == vd_call.speed.data
            n == Len(data)
            sv == vd_call.ret[1].speed_variability
        IN  IF ~ValidateInput(data, 0, 300) \/ SumV(data) < 5 * n
            THEN sv = 0
            ELSE \E r \in 0..(300 * n) :
                    /\ r * r = n * SumSq(data) - SumV(data) * SumV(data)
                    /\ sv * SumV(data) = r * 100 * CvUnits
\* a varying speed batch whose mean is exactly 5 km/h was analysed
C29_Witness ==
    /\ vd_call.op = "analyze"
    /\ vd_call.speed.given
    /\ ValidateInput(vd_call.speed.data, 0, 300)
    /\ SumV(vd_call.speed.data) = 5 * Len(vd_call.speed.data)
    /\ vd_call.ret[1].speed_variability = 40 * CvUnits

\* C30 (state part): total_analyses is the number of analyze() calls since
\* construction or the last reset(); after reset() it is 0 and last_metrics
\* is None; after analyze() last_metrics is the snapshot returned.
C30_Counted ==
    /\ GetStatistics.total_analyses = analyses
    /\ vd_call.op = "reset" =>
           GetStatistics.total_analyses = 0 /\ GetStatistics.last_metrics = Absent
    /\ vd_call.op = "analyze" => GetStatistics.last_metrics = vd_call.ret
\* C30 (step part): an analyze() call that follows an analyze() call with
\* the same arguments returns the same metrics.
C30_SameAgain ==
    (/\ vd_call.op = "analyze" /\ vd_call'.op = "analyze"
     /\ thresholds' = thresholds
     /\ vd_call'.steering = vd_call.steering
     /\ vd_call'.lane = vd_call.lane
     /\ vd_call'.speed = vd_call.speed) => vd_call'.ret = vd_call.ret
EarCall == ear_call[1]
\* what calculate_single_eye_ear must refuse: fewer than six indices, an
\* index that is no position 0 .. len-1 of the landmark set, no eye width
MustFail(landmarks, eye_indices) ==
    \/ Len(eye_indices) < 6
    \/ \E k \in 1..Len(eye_indices) :
           eye_indices[k] < 0 \/ eye_indices[k] >= Len(landmarks)
    \/ /\ Len(eye_indices) = 6
       /\ \A k \in 1..6 : eye_indices[k] \in 0..(Len(landmarks) - 1)
       /\ EuclideanDistance(landmarks[eye_indices[1] + 1],
                            landmarks[eye_indices[4] + 1]) = 0

\* C31: calculate_single_eye_ear returns None when fewer than six indices
\* are supplied, when an index is outside the landmark set (negative ones
\* included) or when the eye has no width; calculate_ear then returns an
\* EARResult with is_valid false and confidence 0.
C31_GeometryFails ==
    ear_call # Absent =>
        /\ MustFail(EarCall.landmarks, EarCall.left_indices)
               => EarCall.left_ear = Absent
        /\ MustFail(EarCall.landmarks, EarCall.right_indices)
               => EarCall.right_ear = Absent
        /\ (EarCall.left_ear = Absent \/ EarCall.right_ear = Absent)
               => (~EarCall.result.is_valid /\ EarCall.result.confidence = 0)

(* ------------------------ AlertSystem : delivery ---------------------- *)
\* no more alerts than this are accepted while the clock runs to MaxTime
MaxAccepted == MaxTime \div MinIntervalTicks + 1

\* C32: while the system is active, every alert for which trigger_alert
\* returned True is eventually handed to _deliver_alert, exactly once, and the
\* alerts are handed over in the order in which they were accepted.
C32_DeliveredInOrder ==
    /\ [](\A i \in 1..Len(handed) : handed[i] = i)
    /\ [](\A i \in 1..Len(queued_ids) : queued_ids[i] = Len(handed) + i)
    /\ [](Len(queued_ids) = Len(alert_queue) /\ Accepted = returned_true)
    /\ \A k \in 1..MaxAccepted :
           (returned_true >= k) ~> (Len(handed) >= k \/ ~is_active)
C32_Witness ==
    /\ is_active
    /\ returned_true >= 2
    /\ handed = <<1, 2>>

\* a step of the delivery leaves the worker in its loop and takes nothing
\* from the queue
C33_WorkerStays ==
    worker_pc \in {"deliver", "callbacks"} =>
        (worker_pc' \in {"deliver", "callbacks", "while"}
         /\ Len(alert_queue') >= Len(alert_queue))
\* the loop over the callbacks is left only after the last callback
C33_AllCallbacks ==
    (worker_pc = "callbacks" /\ worker_pc' # "callbacks") =>
        (Len(executed') = NumCallbacks
         /\ \A i \in 1..NumCallbacks : executed'[i].callback = i)
C34_AlertHasImpairment ==
    last_fusion # Absent =>
        (Fused.alert_level # "NONE" => Fused.impairment_type # "none")

\* the score k / ScoreSteps in ScoreUnits
GridScore(k) == (k * ScoreUnits) \div ScoreSteps
\* C35: weighted fusion is monotone: from the two scores of a weighted
\* fusion, raising the visual score with the vehicle score fixed, or the
\* vehicle score with the visual score fixed, to any score of the grid
\* 0, 1/ScoreSteps, ..., 1 never gives a lower combined score.
C35_WeightedMonotone ==
    (last_fusion # Absent /\ fusion_strategy = "weighted") =>
        \A k \in 0..ScoreSteps :
            /\ GridScore(k) >= Fused.visual_score =>
                   FracLe(Fused.combined_score,
                          WeightedFusion(GridScore(k), Fused.vehicle_score))
            /\ GridScore(k) >= Fused.vehicle_score =>
                   FracLe(Fused.combined_score,
                          WeightedFusion(Fused.visual_score, GridScore(k)))

\* C36: under the bayesian strategy the combined score is at most
\* (0.5 / 1.45) * max(visual, vehicle), hence below the WARNING threshold
\* 0.4, and the alert level is other than NONE only when both modalities
\* report CRITICAL, in which case it is CRITICAL.
C36_BayesianBelowWarning ==
    (last_fusion # Absent /\ fusion_strategy = "bayesian") =>
        /\ FracLe(Fused.combined_score,
                  Scale(Frac(50, 145), PyMax(Fused.visual_score, Fused.vehicle_score),
                        ScoreUnits))
        /\ FracLt(Fused.combined_score, Frac(4, 10))
        /\ Fused.alert_level # "NONE" =>
               /\ Fused.alert_level = "CRITICAL"
               /\ Fused.visual_event # Absent
               /\ Fused.visual_event[1].alert_level = "CRITICAL"
               /\ Fused.vehicle_metrics # Absent
               /\ Fused.vehicle_metrics[1].risk_level = "CRITICAL"
\* a bayesian fusion of two CRITICAL modalities, and the largest posterior
C36_Witness ==
    /\ last_fusion # Absent
    /\ fusion_strategy = "bayesian"
    /\ Fused.alert_level = "CRITICAL"
    /\ Fused.visual_score > 0 /\ Fused.vehicle_score > 0
    /\ Fused.combined_score =
           Scale(Frac(50, 145), PyMax(Fused.visual_score, Fused.vehicle_score),
                 ScoreUnits)

(* ----------------------------- CircuitBreaker ------------------------- *)
\* C37: once failures has reached failure_threshold the breaker is OPEN; a
\* call() made while OPEN within the timeout of the last failure raises
\* without invoking the wrapped function and leaves failures and state as
\* they were; a call() made while OPEN after the timeout invokes the wrapped
\* function, and leaves the breaker CLOSED with failures = 0 when it returns
\* and OPEN when it raises.
C37_BreakerProtects ==
    /\ failures >= FailureThreshold => breaker_state = "OPEN"
    /\ (breaker_call.op = "call" /\ breaker_call.state = "OPEN") =>
           IF breaker_call.waited <= BreakerTimeout
           THEN /\ ~breaker_call.invoked
                /\ breaker_call.result = "rejected"
                /\ failures = breaker_call.failures
                /\ breaker_state = "OPEN"
           ELSE /\ breaker_call.invoked
                /\ breaker_call.result = "returned" =>
                       (breaker_state = "CLOSED" /\ failures = 0)
                /\ breaker_call.result = "raised" =>
                       (breaker_state = "OPEN" /\ failures = breaker_call.failures + 1)
\* a breaker closed again by the call let through after the timeout
C37_Witness ==
    /\ breaker_call.op = "call"
    /\ breaker_call.state = "OPEN"
    /\ breaker_call.failures = FailureThreshold
    /\ breaker_call.waited > BreakerTimeout
    /\ breaker_call.result = "returned"
    /\ breaker_state = "CLOSED"

\* C38: the breaker is OPEN only after failure_threshold failures in a row,
\* and a call that succeeds while the breaker is CLOSED leaves failures = 0.
C38_ConsecutiveOnly ==
    /\ breaker_state = "OPEN" => consecutive >= FailureThreshold
    /\ (breaker_call.op = "call" /\ breaker_call.state = "CLOSED"
        /\ breaker_call.result = "returned") => failures = 0

(* ------------- AdvancedAlertSystem : connectivity changes ------------- *)
\* where an alert that is not yet sent can be
Pending == Range(adv_queue) \cup Range(offline_buffer) \cup {proc_alert}

\* C39: under every interleaving of the processing thread with
\* set_online_status, no alert is dropped (each alert triggered is sent or
\* still queued, buffered or in the thread's hands), none is sent twice, and
\* none is left in offline_buffer while the system is online and no
\* set_online_status call or buffering step is under way.
C39_NoAlertLost ==
    /\ \A a \in 1..triggered : a \in Pending \/ a \in Range(sent)
    /\ \A i, j \in 1..Len(sent) : sent[i] = sent[j] => i = j
    /\ (is_online /\ conn_pc = "idle" /\ proc_pc # "append") => offline_buffer = <<>>

====
